---------------------------- MODULE Spec2Model ----------------------------
(***************************************************************************)
(* A model of google-workspace-github-sync: the diff engine                *)
(* (CalculateDiff), the action executor (ExecuteActions), the invitation   *)
(* reconciler (Reconciler) with its DynamoDB store, and the single-flight  *)
(* sync engine (Engine.Sync).                                              *)
(***************************************************************************)
EXTENDS Integers, Sequences, FiniteSets, TLC

VARIABLES
    \* --- diff engine harness: the arguments of one CalculateDiff call and its result
    dIn,        \* record of the arguments
    dOrd,       \* the iteration orders Go picked for the maps ranged over
    dOut,       \* the returned []SyncAction
    dDone,      \* has CalculateDiff returned
    \* --- executor harness: one ExecuteActions call
    xIn,        \* the action list handed in
    xDry,       \* dryRun argument
    xDir,       \* what the directory (GitHub client) answers to each call
    xOut,       \* the returned action list
    xCalls,     \* the directory calls issued, in order
    xErr,       \* the returned error
    xDone,
    \* --- Sync runs over the invitation store
    store,      \* the items of the table
    cursor,     \* LastTimestamp of the saved audit cursor, 0 when none is saved
    ghInv,      \* the directory's invitations, by id
    ghAudit,    \* the directory's org.add_member audit events, oldest first
    today,      \* the date, in days
    runs,       \* Sync runs started
    rPc,        \* "idle", or "ensure" between Reconcile and EnsureVerifiedEmailMappings
    rLast,      \* what the last pass did
    rLost,      \* history: the invitations created in the directory whose record could not be saved
    rQuiet,     \* the last Reconcile reported no error and the directory has not changed since
    \* --- Engine: concurrent Sync callers
    eRunning,   \* Engine.running
    eMu,        \* the holder of Engine.mu, Nil when free
    ePc,        \* where each caller is in Sync
    ePhase,     \* the phase of the run a caller is in
    eCalls,     \* directory and store calls a caller has made in its current Sync
    eRet,       \* what a caller's last Sync returned
    eCount,     \* Sync calls a caller has made
    eCfg,       \* the engine's configuration (cfg.Sync and whether a reconciler is set)
    eLog        \* the calls of a caller's current Sync in the order made, with their outcome

dvars == <<dIn, dOrd, dOut, dDone>>
xvars == <<xIn, xDry, xDir, xOut, xCalls, xErr, xDone>>
rvars == <<store, cursor, ghInv, ghAudit, today, runs, rPc, rLast, rLost, rQuiet>>
evars == <<eRunning, eMu, ePc, ePhase, eCalls, eRet, eCount, eCfg, eLog>>
vars  == <<dIn, dOrd, dOut, dDone, xIn, xDry, xDir, xOut, xCalls, xErr, xDone,
           store, cursor, ghInv, ghAudit, today, runs, rPc, rLast, rLost, rQuiet,
           eRunning, eMu, ePc, ePhase, eCalls, eRet, eCount, eCfg, eLog>>

-----------------------------------------------------------------------------
(* Values *)

\* a nil *string / nil *OrgRole / nil error
Nil == "<nil>"

\* a nil *int64 invitation id (GitHub invitation ids are positive)
NoID == 0

RoleMember == "member"
RoleOwner  == "admin"

ActionInvite       == "invite"
ActionRemove       == "remove"
ActionUpdateRole   == "update_role"
ActionCancelInvite == "cancel_invite"
ActionSkip         == "skip"

\* the strings of the model and strings.ToLower on them
Emails  == {"a@x", "A@x", "b@x"}
Handles == {"bob", "Bob", "carol"}

ToLower(s) ==
    CASE s = "A@x" -> "a@x"
      [] s = "Bob" -> "bob"
      [] OTHER     -> s

EqualFold(s, t) == ToLower(s) = ToLower(t)

-----------------------------------------------------------------------------
(* Sequences and Go maps *)

Range(s) == {s[i] : i \in DOMAIN s}

\* every order in which a Go range loop may visit the keys of a map
Perms(S) ==
    {f \in [1..Cardinality(S) -> S] : \A i, j \in 1..Cardinality(S) : f[i] = f[j] => i = j}

MapPut(m, k, v) == [x \in (DOMAIN m) \cup {k} |-> IF x = k THEN v ELSE m[x]]

EmptyMap == <<>>

-----------------------------------------------------------------------------
(* models *)

GoogleGroupMember(email, type, status, suspended) ==
    [Email |-> email, Type |-> type, Status |-> status, IsSuspended |-> suspended]

IsActive(m) == m.Type = "USER" /\ m.Status = "ACTIVE" /\ ~m.IsSuspended

GitHubOrgMember(username, email, role, pending, invId) ==
    [Username |-> username, Email |-> email, Role |-> role,
     IsPending |-> pending, InvitationID |-> invId]

Identifier(m) ==
    IF m.Email # Nil /\ m.Email # "" THEN m.Email
    ELSE IF m.Username # Nil THEN m.Username
    ELSE ""

SyncAction(type, email, googleEmail, current, target, reason, invId) ==
    [Type |-> type, Email |-> email, GoogleEmail |-> googleEmail, Username |-> "",
     CurrentRole |-> current, TargetRole |-> target, Reason |-> reason,
     Executed |-> FALSE, AlreadyInOrg |-> FALSE, Error |-> Nil,
     Timestamp |-> FALSE, InvitationID |-> invId]

-----------------------------------------------------------------------------
(* CalculateDiff *)

\* *EmailMappings: IsNil models the nil pointer
EmailMappings(resolved, pending) ==
    [IsNil |-> FALSE, Resolved |-> resolved, PendingInvitations |-> pending]

NilMappings == [IsNil |-> TRUE, Resolved |-> EmptyMap, PendingInvitations |-> EmptyMap]

\* a faulty variant: the pending invites are left out of the known set
KnownSetMembersOnly(githubMembers, pendingInvites) ==
    {ToLower(Identifier(m)) : m \in Range(githubMembers)} \ {""}

\* a faulty variant: the identifiers of the pending invites are taken as listed
KnownSetPendingAsListed(githubMembers, pendingInvites) ==
    ({ToLower(Identifier(m)) : m \in Range(githubMembers)}
     \cup {Identifier(m) : m \in Range(pendingInvites)}) \ {""}

\* known identifiers from the members and the pending invites
KnownSet(githubMembers, pendingInvites) ==
    {ToLower(Identifier(m)) : m \in Range(githubMembers) \cup Range(pendingInvites)} \ {""}

\* keys of the username -> member index
GhByUsername(githubMembers) ==
    {ToLower(m.Username) : m \in {g \in Range(githubMembers) : g.Username # Nil}}

\* one iteration of the loop over emailMappings.Resolved;
\* st = [known, resolvedUserByEmail, emailByResolvedUser]
ResolvedStep(st, email, username, ghUsers) ==
    LET lowerEmail == ToLower(email)
        lowerUser  == ToLower(username)
    IN  [known               |-> IF lowerEmail \notin st.known /\ lowerUser \in ghUsers
                                 THEN st.known \cup {lowerEmail}
                                 ELSE st.known,
         resolvedUserByEmail |-> MapPut(st.resolvedUserByEmail, lowerEmail, username),
         emailByResolvedUser |-> MapPut(st.emailByResolvedUser, lowerUser, lowerEmail)]

\* the loop over emailMappings.Resolved, visited in the order `order`
RECURSIVE ResolvedLoop(_, _, _, _, _)
ResolvedLoop(st, resolved, ghUsers, order, i) ==
    IF i > Len(order) THEN st
    ELSE ResolvedLoop(ResolvedStep(st, order[i], resolved[order[i]], ghUsers),
                      resolved, ghUsers, order, i + 1)

\* a faulty variant: a verified-email hint is admitted without looking for its handle
\* among the members
VerifiedStepUnchecked(st, email, username, ghUsers) ==
    LET lowerEmail == ToLower(email)
        lowerUser  == ToLower(username)
        covered    == lowerEmail \in DOMAIN st.resolvedUserByEmail
    IN  [known               |-> st.known \cup {lowerEmail},
         resolvedUserByEmail |-> IF covered THEN st.resolvedUserByEmail
                                 ELSE MapPut(st.resolvedUserByEmail, lowerEmail, username),
         emailByResolvedUser |-> IF covered THEN st.emailByResolvedUser
                                 ELSE MapPut(st.emailByResolvedUser, lowerUser, lowerEmail)]

\* one iteration of the loop over verifiedEmails
VerifiedStep(st, email, username, ghUsers) ==
    LET lowerEmail == ToLower(email)
        lowerUser  == ToLower(username)
        covered    == lowerEmail \in DOMAIN st.resolvedUserByEmail
    IN  [known               |-> IF lowerEmail \notin st.known /\ lowerUser \in ghUsers
                                 THEN st.known \cup {lowerEmail}
                                 ELSE st.known,
         resolvedUserByEmail |-> IF covered THEN st.resolvedUserByEmail
                                 ELSE MapPut(st.resolvedUserByEmail, lowerEmail, username),
         emailByResolvedUser |-> IF covered THEN st.emailByResolvedUser
                                 ELSE MapPut(st.emailByResolvedUser, lowerUser, lowerEmail)]

\* the loop over verifiedEmails, visited in the order `order`
RECURSIVE VerifiedLoop(_, _, _, _, _)
VerifiedLoop(st, verifiedEmails, ghUsers, order, i) ==
    IF i > Len(order) THEN st
    ELSE VerifiedLoop(VerifiedStep(st, order[i], verifiedEmails[order[i]], ghUsers),
                      verifiedEmails, ghUsers, order, i + 1)

\* known set and lookup maps after both hint loops
HintState(githubMembers, pendingInvites, emailMappings, verifiedEmails, ord) ==
    LET ghUsers == GhByUsername(githubMembers)
        st0 == [known               |-> KnownSet(githubMembers, pendingInvites),
                resolvedUserByEmail |-> EmptyMap,
                emailByResolvedUser |-> EmptyMap]
        st1 == IF emailMappings.IsNil THEN st0
               ELSE ResolvedLoop(st0, emailMappings.Resolved, ghUsers, ord.resolved, 1)
    IN  VerifiedLoop(st1, verifiedEmails, ghUsers, ord.verified, 1)

\* one pass over a group: active members overwrite the entry of their lowercased email
RECURSIVE RoleLoop(_, _, _, _)
RoleLoop(roleByEmail, group, role, i) ==
    IF i > Len(group) THEN roleByEmail
    ELSE RoleLoop(IF IsActive(group[i])
                  THEN MapPut(roleByEmail, ToLower(group[i].Email),
                              [email |-> group[i].Email, role |-> role])
                  ELSE roleByEmail,
                  group, role, i + 1)

\* a faulty variant: the groups are overlaid in the wrong order
RoleByEmailOwnersFirst(membersGroup, ownersGroup) ==
    RoleLoop(RoleLoop(EmptyMap, ownersGroup, RoleOwner, 1), membersGroup, RoleMember, 1)

\* desired state: members first, then owners (owners take precedence)
RoleByEmail(membersGroup, ownersGroup) ==
    RoleLoop(RoleLoop(EmptyMap, membersGroup, RoleMember, 1), ownersGroup, RoleOwner, 1)

\* append in order: each loop below appends at most one action per element
RECURSIVE Flatten(_)
Flatten(ss) == IF ss = <<>> THEN <<>> ELSE Head(ss) \o Flatten(Tail(ss))

\* --- Invite: desired emails not in the known set
InviteActions(roleByEmail, known, order) ==
    LET Keep(key) == key \notin known
        Mk(key)   == SyncAction(ActionInvite, roleByEmail[key].email, "", Nil,
                                roleByEmail[key].role, "missing in GitHub organization", NoID)
    IN  Flatten([i \in DOMAIN order |-> IF Keep(order[i]) THEN <<Mk(order[i])>> ELSE <<>>])

\* --- Remove, aggressive mode
AggressiveRemoveActions(githubMembers, googleSet, emailByResolvedUser) ==
    LET Keep(member) ==
            /\ ~(member.IsPending \/ member.Username = Nil)
            /\ LET identifier == ToLower(Identifier(member))
                   username   == ToLower(member.Username)
               IN  /\ ~(identifier # "" /\ identifier \in googleSet)
                   /\ ~(username \in DOMAIN emailByResolvedUser
                        /\ emailByResolvedUser[username] \in googleSet)
        Mk(member) ==
            LET username == ToLower(member.Username)
            IN  SyncAction(ActionRemove, member.Username,
                           IF username \in DOMAIN emailByResolvedUser
                           THEN emailByResolvedUser[username] ELSE "",
                           Nil, Nil, "missing from Google groups", NoID)
    IN  Flatten([i \in DOMAIN githubMembers |-> IF Keep(githubMembers[i]) THEN <<Mk(githubMembers[i])>> ELSE <<>>])

\* --- Remove, conservative mode (only when emailMappings is not nil)
ConservativeRemoveActions(githubMembers, googleSet, emailByResolvedUser) ==
    LET Keep(member) ==
            /\ ~(member.IsPending \/ member.Username = Nil)
            /\ ToLower(member.Username) \in DOMAIN emailByResolvedUser
            /\ emailByResolvedUser[ToLower(member.Username)] \notin googleSet
        Mk(member) ==
            SyncAction(ActionRemove, member.Username,
                       emailByResolvedUser[ToLower(member.Username)],
                       Nil, Nil, "removed from Google groups (tracked via DynamoDB)", NoID)
    IN  Flatten([i \in DOMAIN githubMembers |-> IF Keep(githubMembers[i]) THEN <<Mk(githubMembers[i])>> ELSE <<>>])

\* a faulty variant: conservative removal runs without a mapping snapshot
RemoveActionsWithoutSnapshot(githubMembers, googleSet, emailByResolvedUser, removeExtraMembers, emailMappings) ==
    IF removeExtraMembers
    THEN AggressiveRemoveActions(githubMembers, googleSet, emailByResolvedUser)
    ELSE ConservativeRemoveActions(githubMembers, googleSet, emailByResolvedUser)

RemoveActions(githubMembers, googleSet, emailByResolvedUser, removeExtraMembers, emailMappings) ==
    IF removeExtraMembers
    THEN AggressiveRemoveActions(githubMembers, googleSet, emailByResolvedUser)
    ELSE IF ~emailMappings.IsNil
    THEN ConservativeRemoveActions(githubMembers, googleSet, emailByResolvedUser)
    ELSE <<>>

\* a faulty variant: a hint is not compared with the live pending invitations
CancelActionsNoDedup(pendingInvites, googleSet, emailMappings, order) ==
    IF emailMappings.IsNil THEN <<>>
    ELSE
    LET KeepLive(invite) ==
            /\ ~(invite.Email = Nil \/ invite.Email = "" \/ invite.InvitationID = NoID)
            /\ ToLower(invite.Email) \notin googleSet
        MkLive(invite) ==
            SyncAction(ActionCancelInvite, invite.Email, "", Nil, Nil,
                       "removed from Google groups, cancelling pending invitation",
                       invite.InvitationID)
        hints == emailMappings.PendingInvitations
        KeepHint(email) == ToLower(email) \notin googleSet
        MkHint(email) ==
            SyncAction(ActionCancelInvite, email, "", Nil, Nil,
                       "removed from Google groups, cancelling pending invitation",
                       hints[email])
    IN  Flatten([i \in DOMAIN pendingInvites |-> IF KeepLive(pendingInvites[i]) THEN <<MkLive(pendingInvites[i])>> ELSE <<>>]) \o Flatten([i \in DOMAIN order |-> IF KeepHint(order[i]) THEN <<MkHint(order[i])>> ELSE <<>>])

\* --- Cancel pending invitations of emails no longer desired
CancelActions(pendingInvites, googleSet, emailMappings, order) ==
    IF emailMappings.IsNil THEN <<>>
    ELSE
    LET KeepLive(invite) ==
            /\ ~(invite.Email = Nil \/ invite.Email = "" \/ invite.InvitationID = NoID)
            /\ ToLower(invite.Email) \notin googleSet
        MkLive(invite) ==
            SyncAction(ActionCancelInvite, invite.Email, "", Nil, Nil,
                       "removed from Google groups, cancelling pending invitation",
                       invite.InvitationID)
        hints == emailMappings.PendingInvitations
        KeepHint(email) ==
            /\ ToLower(email) \notin googleSet
            /\ ~\E j \in DOMAIN pendingInvites :
                    /\ pendingInvites[j].InvitationID # NoID
                    /\ pendingInvites[j].InvitationID = hints[email]
        MkHint(email) ==
            SyncAction(ActionCancelInvite, email, "", Nil, Nil,
                       "removed from Google groups, cancelling pending invitation",
                       hints[email])
    IN  Flatten([i \in DOMAIN pendingInvites |-> IF KeepLive(pendingInvites[i]) THEN <<MkLive(pendingInvites[i])>> ELSE <<>>]) \o Flatten([i \in DOMAIN order |-> IF KeepHint(order[i]) THEN <<MkHint(order[i])>> ELSE <<>>])

\* does the role-change step find a desired entry for the member:
\* direct match, else reverse lookup username -> email
HasDesired(member, roleByEmail, emailByResolvedUser) ==
    \/ ToLower(Identifier(member)) \in DOMAIN roleByEmail
    \/ /\ ToLower(member.Username) \in DOMAIN emailByResolvedUser
       /\ emailByResolvedUser[ToLower(member.Username)] \in DOMAIN roleByEmail

DesiredOf(member, roleByEmail, emailByResolvedUser) ==
    IF ToLower(Identifier(member)) \in DOMAIN roleByEmail
    THEN roleByEmail[ToLower(Identifier(member))]
    ELSE roleByEmail[emailByResolvedUser[ToLower(member.Username)]]

\* --- Role changes
RoleActions(githubMembers, roleByEmail, emailByResolvedUser) ==
    LET Keep(member) ==
            /\ ~(member.IsPending \/ member.Username = Nil)
            /\ HasDesired(member, roleByEmail, emailByResolvedUser)
            /\ member.Role # DesiredOf(member, roleByEmail, emailByResolvedUser).role
        Mk(member) ==
            LET username == ToLower(member.Username)
            IN  SyncAction(ActionUpdateRole, member.Username,
                           IF username \in DOMAIN emailByResolvedUser
                           THEN emailByResolvedUser[username] ELSE "",
                           member.Role,
                           DesiredOf(member, roleByEmail, emailByResolvedUser).role,
                           "role mismatch", NoID)
    IN  Flatten([i \in DOMAIN githubMembers |-> IF Keep(githubMembers[i]) THEN <<Mk(githubMembers[i])>> ELSE <<>>])

\* ord gives the visiting order of each map the function ranges over
CalculateDiff(membersGroup, ownersGroup, githubMembers, pendingInvites, removeExtraMembers, emailMappings, verifiedEmails, ord) ==
    LET st          == HintState(githubMembers, pendingInvites, emailMappings, verifiedEmails, ord)
        roleByEmail == RoleByEmail(membersGroup, ownersGroup)
        googleSet   == DOMAIN roleByEmail
    IN  InviteActions(roleByEmail, st.known, ord.roles)
        \o RemoveActions(githubMembers, googleSet, st.emailByResolvedUser,
                         removeExtraMembers, emailMappings)
        \o CancelActions(pendingInvites, googleSet, emailMappings, ord.pendingHints)
        \o RoleActions(githubMembers, roleByEmail, st.emailByResolvedUser)

\* the iteration orders possible for the maps of one call
DiffOrders(membersGroup, ownersGroup, emailMappings, verifiedEmails) ==
    [resolved     : Perms(DOMAIN emailMappings.Resolved),
     verified     : Perms(DOMAIN verifiedEmails),
     roles        : Perms(DOMAIN RoleByEmail(membersGroup, ownersGroup)),
     pendingHints : Perms(DOMAIN emailMappings.PendingInvitations)]

-----------------------------------------------------------------------------
(* ExecuteActions *)

\* err.Error() of the errors the directory client returns
ErrAlreadyMember == "user is already a member of the organization"
ErrDirectory     == "directory call failed"

\* What the directory answers to the calls made for one action:
\*   primary: the answer to CreateInvitation / RemoveMember / UpdateMemberRole /
\*            CancelInvitation: "ok", "already" (ErrAlreadyMember) or "error"
\*   id:      the invitation id of a created invitation (NoID: none returned)
\*   login, searchErr: the answer of SearchUserByEmail; the client returns the
\*            login only for exactly one match, and "" along with any error
\*   update:  the answer to the UpdateMemberRole that follows a successful search
Outcome(primary, id, login, searchErr, update) ==
    [primary |-> primary, id |-> id, login |-> login, searchErr |-> searchErr, update |-> update]

CallCreateInvitation(email, role)   == [op |-> "CreateInvitation", arg |-> email, role |-> role]
CallSearchUserByEmail(email)        == [op |-> "SearchUserByEmail", arg |-> email, role |-> Nil]
CallUpdateMemberRole(username, role) == [op |-> "UpdateMemberRole", arg |-> username, role |-> role]
CallRemoveMember(username)          == [op |-> "RemoveMember", arg |-> username, role |-> Nil]
CallCancelInvitation(id)            == [op |-> "CancelInvitation", arg |-> id, role |-> Nil]

\* ExecInvite without the already-a-member upgrade: the rejection is an error
ExecInviteNoUpgrade(action, out) ==
    IF action.TargetRole = Nil
    THEN [action |-> [action EXCEPT !.Error = "target role is required"], calls |-> <<>>]
    ELSE IF out.primary = "ok"
    THEN [action |-> [action EXCEPT !.Executed = TRUE, !.InvitationID = out.id,
                                    !.Timestamp = TRUE],
          calls  |-> <<CallCreateInvitation(action.Email, action.TargetRole)>>]
    ELSE [action |-> [action EXCEPT !.Error = ErrDirectory],
          calls  |-> <<CallCreateInvitation(action.Email, action.TargetRole)>>]

\* a faulty variant: with no handle found, the role update is tried on the email
ExecInviteGuessHandle(action, out) ==
    IF action.TargetRole = Nil
    THEN [action |-> [action EXCEPT !.Error = "target role is required"], calls |-> <<>>]
    ELSE LET create == CallCreateInvitation(action.Email, action.TargetRole)
             search == CallSearchUserByEmail(action.Email)
         IN
         IF out.primary = "ok"
         THEN [action |-> [action EXCEPT !.Executed = TRUE, !.InvitationID = out.id,
                                         !.Timestamp = TRUE],
               calls  |-> <<create>>]
         ELSE IF out.primary = "already"
         THEN IF out.update # "ok"
              THEN [action |-> [action EXCEPT !.AlreadyInOrg = TRUE, !.Error = ErrDirectory],
                    calls  |-> <<create, search, CallUpdateMemberRole(out.login, action.TargetRole)>>]
              ELSE [action |-> [action EXCEPT !.Type = ActionUpdateRole,
                                              !.Executed = TRUE,
                                              !.AlreadyInOrg = TRUE,
                                              !.Username = out.login,
                                              !.GoogleEmail = action.Email,
                                              !.Timestamp = TRUE],
                    calls  |-> <<create, search, CallUpdateMemberRole(action.Email, action.TargetRole)>>]
         ELSE [action |-> [action EXCEPT !.Error = ErrDirectory], calls |-> <<create>>]

\* case ActionInvite; returns the updated action and the calls issued
ExecInvite(action, out) ==
    IF action.TargetRole = Nil
    THEN [action |-> [action EXCEPT !.Error = "target role is required"], calls |-> <<>>]
    ELSE LET create == CallCreateInvitation(action.Email, action.TargetRole)
             search == CallSearchUserByEmail(action.Email)
         IN
         IF out.primary = "ok"
         THEN [action |-> [action EXCEPT !.Executed = TRUE, !.InvitationID = out.id,
                                         !.Timestamp = TRUE],
               calls  |-> <<create>>]
         ELSE IF out.primary = "already"
         THEN IF out.login # ""
              THEN IF out.update # "ok"
                   THEN [action |-> [action EXCEPT !.AlreadyInOrg = TRUE, !.Error = ErrDirectory],
                         calls  |-> <<create, search, CallUpdateMemberRole(out.login, action.TargetRole)>>]
                   ELSE [action |-> [action EXCEPT !.Type = ActionUpdateRole,
                                                   !.Executed = TRUE,
                                                   !.AlreadyInOrg = TRUE,
                                                   !.Username = out.login,
                                                   !.GoogleEmail = action.Email,
                                                   !.Reason = "invite upgraded: user already in org, role updated",
                                                   !.Timestamp = TRUE],
                         calls  |-> <<create, search, CallUpdateMemberRole(out.login, action.TargetRole)>>]
              ELSE [action |-> [action EXCEPT !.AlreadyInOrg = TRUE, !.Error = ErrAlreadyMember,
                                              !.Executed = FALSE],
                    calls  |-> <<create, search>>]
         ELSE [action |-> [action EXCEPT !.Error = ErrDirectory], calls |-> <<create>>]

\* case ActionRemove
ExecRemove(action, out) ==
    IF out.primary # "ok"
    THEN [action |-> [action EXCEPT !.Error = ErrDirectory],
          calls  |-> <<CallRemoveMember(action.Email)>>]
    ELSE [action |-> [action EXCEPT !.Executed = TRUE, !.Timestamp = TRUE],
          calls  |-> <<CallRemoveMember(action.Email)>>]

\* case ActionUpdateRole
ExecUpdateRole(action, out) ==
    IF action.TargetRole = Nil
    THEN [action |-> [action EXCEPT !.Error = "target role is required"], calls |-> <<>>]
    ELSE IF out.primary # "ok"
    THEN [action |-> [action EXCEPT !.Error = ErrDirectory],
          calls  |-> <<CallUpdateMemberRole(action.Email, action.TargetRole)>>]
    ELSE [action |-> [action EXCEPT !.Executed = TRUE, !.Timestamp = TRUE],
          calls  |-> <<CallUpdateMemberRole(action.Email, action.TargetRole)>>]

\* a faulty variant: a cancel without invitation id is passed over in silence
ExecCancelInviteSilent(action, out) ==
    IF action.InvitationID = NoID
    THEN [action |-> action, calls |-> <<>>]
    ELSE IF out.primary # "ok"
    THEN [action |-> [action EXCEPT !.Error = ErrDirectory],
          calls  |-> <<CallCancelInvitation(action.InvitationID)>>]
    ELSE [action |-> [action EXCEPT !.Executed = TRUE, !.Timestamp = TRUE],
          calls  |-> <<CallCancelInvitation(action.InvitationID)>>]

\* case ActionCancelInvite
ExecCancelInvite(action, out) ==
    IF action.InvitationID = NoID
    THEN [action |-> [action EXCEPT !.Error = "invitation ID is required for cancel"],
          calls  |-> <<>>]
    ELSE IF out.primary # "ok"
    THEN [action |-> [action EXCEPT !.Error = ErrDirectory],
          calls  |-> <<CallCancelInvitation(action.InvitationID)>>]
    ELSE [action |-> [action EXCEPT !.Executed = TRUE, !.Timestamp = TRUE],
          calls  |-> <<CallCancelInvitation(action.InvitationID)>>]

\* ExecOne without the dry-run short cut
ExecOneLive(action, dryRun, out) ==
    CASE action.Type = ActionInvite       -> ExecInvite(action, out)
      [] action.Type = ActionRemove       -> ExecRemove(action, out)
      [] action.Type = ActionUpdateRole   -> ExecUpdateRole(action, out)
      [] action.Type = ActionCancelInvite -> ExecCancelInvite(action, out)
      [] OTHER                            -> [action |-> action, calls |-> <<>>]

\* the body of the loop for one action
ExecOne(action, dryRun, out) ==
    IF dryRun THEN [action |-> [action EXCEPT !.Executed = FALSE], calls |-> <<>>]
    ELSE CASE action.Type = ActionInvite       -> ExecInvite(action, out)
           [] action.Type = ActionRemove       -> ExecRemove(action, out)
           [] action.Type = ActionUpdateRole   -> ExecUpdateRole(action, out)
           [] action.Type = ActionCancelInvite -> ExecCancelInvite(action, out)
           [] OTHER                            -> [action |-> action, calls |-> <<>>]

\* a faulty variant: the loop gives up at the first action that fails and
\* returns its error along with the actions handled so far
RECURSIVE ExecLoopStopOnError(_, _, _, _, _)
ExecLoopStopOnError(actions, dryRun, outs, i, acc) ==
    IF i > Len(actions) THEN acc
    ELSE LET r == ExecOne(actions[i], dryRun, outs[i])
             next == [actions |-> Append(acc.actions, r.action),
                      calls   |-> acc.calls \o r.calls,
                      err     |-> r.action.Error]
         IN  IF r.action.Error # Nil THEN next
             ELSE ExecLoopStopOnError(actions, dryRun, outs, i + 1, next)

\* the loop over the actions: outs[i] is what the directory answers for
\* actions[i]; acc holds the actions handled so far, the directory calls
\* in the order issued, and the error to return
RECURSIVE ExecLoop(_, _, _, _, _)
ExecLoop(actions, dryRun, outs, i, acc) ==
    IF i > Len(actions) THEN acc
    ELSE LET r == ExecOne(actions[i], dryRun, outs[i])
         IN  ExecLoop(actions, dryRun, outs, i + 1,
                      [actions |-> Append(acc.actions, r.action),
                       calls   |-> acc.calls \o r.calls,
                       err     |-> acc.err])

\* ExecuteActions ends with `return actions, nil`
ExecuteActions(actions, dryRun, outs) ==
    ExecLoop(actions, dryRun, outs, 1, [actions |-> <<>>, calls |-> <<>>, err |-> Nil])

-----------------------------------------------------------------------------
(* Harness of the diff engine: the arguments of a call are built up entry  *)
(* by entry, then CalculateDiff is applied once.                           *)

\* at most this many entries over all the arguments of one call
MaxEntries == 4

GooglePool ==
    {GoogleGroupMember("a@x", "USER", "ACTIVE", FALSE),
     GoogleGroupMember("A@x", "USER", "ACTIVE", FALSE),
     GoogleGroupMember("b@x", "USER", "ACTIVE", FALSE),
     GoogleGroupMember("b@x", "USER", "ACTIVE", TRUE)}

GitHubPool ==
    {GitHubOrgMember(u, e, r, FALSE, NoID) :
        u \in {"bob"}, e \in {Nil, "a@x"}, r \in {RoleMember, RoleOwner}}
    \cup {GitHubOrgMember("carol", Nil, r, FALSE, NoID) : r \in {RoleMember, RoleOwner}}
    \cup {GitHubOrgMember(Nil, "a@x", RoleMember, FALSE, NoID),
          GitHubOrgMember("bob", Nil, RoleMember, TRUE, NoID)}

PendingPool ==
    {GitHubOrgMember(Nil, "A@x", RoleMember, TRUE, 1),
     GitHubOrgMember(Nil, "b@x", RoleMember, TRUE, 2),
     GitHubOrgMember(Nil, "b@x", RoleMember, TRUE, NoID),
     GitHubOrgMember("carol", Nil, RoleMember, TRUE, 1)}

HintHandles == {"Bob", "carol"}
HintIDs     == {1, 2}

DiffSize(in) ==
    Len(in.membersGroup) + Len(in.ownersGroup) + Len(in.githubMembers)
    + Len(in.pendingInvites) + Cardinality(DOMAIN in.emailMappings.Resolved)
    + Cardinality(DOMAIN in.emailMappings.PendingInvitations)
    + Cardinality(DOMAIN in.verifiedEmails)

DiffStart ==
    /\ \E remove \in BOOLEAN, mappings \in {NilMappings, EmailMappings(EmptyMap, EmptyMap)} :
         dIn = [membersGroup |-> <<>>, ownersGroup |-> <<>>, githubMembers |-> <<>>,
                pendingInvites |-> <<>>, removeExtraMembers |-> remove,
                emailMappings |-> mappings, verifiedEmails |-> EmptyMap]
    /\ dOrd = [resolved |-> <<>>, verified |-> <<>>, roles |-> <<>>, pendingHints |-> <<>>]
    /\ dOut = <<>>
    /\ dDone = FALSE

DiffCanAdd == ~dDone /\ DiffSize(dIn) < MaxEntries

AddMembersGroupEntry ==
    /\ DiffCanAdd
    /\ \E g \in GooglePool : dIn' = [dIn EXCEPT !.membersGroup = Append(@, g)]
    /\ UNCHANGED <<dOrd, dOut, dDone, xvars, rvars, evars>>

AddOwnersGroupEntry ==
    /\ DiffCanAdd
    /\ \E g \in GooglePool : dIn' = [dIn EXCEPT !.ownersGroup = Append(@, g)]
    /\ UNCHANGED <<dOrd, dOut, dDone, xvars, rvars, evars>>

AddGitHubMember ==
    /\ DiffCanAdd
    /\ \E m \in GitHubPool : dIn' = [dIn EXCEPT !.githubMembers = Append(@, m)]
    /\ UNCHANGED <<dOrd, dOut, dDone, xvars, rvars, evars>>

AddPendingInvite ==
    /\ DiffCanAdd
    /\ \E m \in PendingPool : dIn' = [dIn EXCEPT !.pendingInvites = Append(@, m)]
    /\ UNCHANGED <<dOrd, dOut, dDone, xvars, rvars, evars>>

AddResolvedHint ==
    /\ DiffCanAdd
    /\ ~dIn.emailMappings.IsNil
    /\ \E e \in Emails \ DOMAIN dIn.emailMappings.Resolved, h \in HintHandles :
         dIn' = [dIn EXCEPT !.emailMappings.Resolved = MapPut(@, e, h)]
    /\ UNCHANGED <<dOrd, dOut, dDone, xvars, rvars, evars>>

AddPendingHint ==
    /\ DiffCanAdd
    /\ ~dIn.emailMappings.IsNil
    /\ \E e \in Emails \ DOMAIN dIn.emailMappings.PendingInvitations, id \in HintIDs :
         dIn' = [dIn EXCEPT !.emailMappings.PendingInvitations = MapPut(@, e, id)]
    /\ UNCHANGED <<dOrd, dOut, dDone, xvars, rvars, evars>>

AddVerifiedHint ==
    /\ DiffCanAdd
    /\ \E e \in Emails \ DOMAIN dIn.verifiedEmails, h \in HintHandles :
         dIn' = [dIn EXCEPT !.verifiedEmails = MapPut(@, e, h)]
    /\ UNCHANGED <<dOrd, dOut, dDone, xvars, rvars, evars>>

RunCalculateDiff ==
    /\ ~dDone
    /\ \E ord \in DiffOrders(dIn.membersGroup, dIn.ownersGroup, dIn.emailMappings, dIn.verifiedEmails) :
         /\ dOrd' = ord
         /\ dOut' = CalculateDiff(dIn.membersGroup, dIn.ownersGroup, dIn.githubMembers,
                                  dIn.pendingInvites, dIn.removeExtraMembers,
                                  dIn.emailMappings, dIn.verifiedEmails, ord)
    /\ dDone' = TRUE
    /\ UNCHANGED <<dIn, xvars, rvars, evars>>

DiffNext ==
    \/ AddMembersGroupEntry
    \/ AddOwnersGroupEntry
    \/ AddGitHubMember
    \/ AddPendingInvite
    \/ AddResolvedHint
    \/ AddPendingHint
    \/ AddVerifiedHint
    \/ RunCalculateDiff

ExecIdle ==
    /\ xIn = <<>> /\ xDry = FALSE /\ xDir = <<>> /\ xOut = <<>> /\ xCalls = <<>> /\ xErr = Nil
    /\ xDone = FALSE


-----------------------------------------------------------------------------
(* Harness of the executor: an action list is built up, then               *)
(* ExecuteActions is applied once against a directory whose answers are    *)
(* chosen freely.                                                          *)

\* at most this many actions in one call
MaxActions == 2

ActionPool ==
    {SyncAction(ActionInvite, "a@x", "", Nil, RoleMember, "new member in Google group", NoID),
     SyncAction(ActionInvite, "b@x", "", Nil, RoleOwner, "new member in Google group", NoID),
     SyncAction(ActionInvite, "a@x", "", Nil, Nil, "new member in Google group", NoID),
     SyncAction(ActionRemove, "bob", "a@x", RoleMember, Nil, "removed from Google groups", NoID),
     SyncAction(ActionUpdateRole, "bob", "", RoleMember, RoleOwner, "role changed in Google groups", NoID),
     SyncAction(ActionUpdateRole, "bob", "", RoleMember, Nil, "role changed in Google groups", NoID),
     SyncAction(ActionCancelInvite, "b@x", "", Nil, Nil, "no longer in Google groups", 1),
     SyncAction(ActionCancelInvite, "b@x", "", Nil, Nil, "no longer in Google groups", NoID),
     SyncAction(ActionSkip, "bob", "", Nil, Nil, "", NoID)}

NoCall == Outcome("ok", NoID, "", FALSE, "ok")

InviteOutcomes ==
    {Outcome("ok", id, "", FALSE, "ok") : id \in {NoID, 1}}
    \cup {Outcome("error", NoID, "", FALSE, "ok")}
    \cup {Outcome("already", NoID, "", e, "ok") : e \in BOOLEAN}
    \cup {Outcome("already", NoID, l, FALSE, u) : l \in {"bob", "Carol"}, u \in {"ok", "error"}}

\* the answers the directory can give to the calls ExecuteActions makes for the action
OutcomesFor(action, dryRun) ==
    IF dryRun THEN {NoCall}
    ELSE CASE action.Type = ActionInvite /\ action.TargetRole # Nil -> InviteOutcomes
           [] action.Type = ActionRemove -> {NoCall, Outcome("error", NoID, "", FALSE, "ok")}
           [] action.Type = ActionUpdateRole /\ action.TargetRole # Nil ->
                  {NoCall, Outcome("error", NoID, "", FALSE, "ok")}
           [] action.Type = ActionCancelInvite /\ action.InvitationID # NoID ->
                  {NoCall, Outcome("error", NoID, "", FALSE, "ok")}
           [] OTHER -> {NoCall}

DiffIdle ==
    /\ dIn = [membersGroup |-> <<>>, ownersGroup |-> <<>>, githubMembers |-> <<>>,
              pendingInvites |-> <<>>, removeExtraMembers |-> FALSE,
              emailMappings |-> NilMappings, verifiedEmails |-> EmptyMap]
    /\ dOrd = [resolved |-> <<>>, verified |-> <<>>, roles |-> <<>>, pendingHints |-> <<>>]
    /\ dOut = <<>>
    /\ dDone = FALSE

AddAction ==
    /\ ~xDone /\ Len(xIn) < MaxActions
    /\ \E a \in ActionPool : xIn' = Append(xIn, a)
    /\ UNCHANGED <<xDry, xDir, xOut, xCalls, xErr, xDone, dvars, rvars, evars>>

RunExecuteActions ==
    /\ ~xDone
    /\ \E outs \in [DOMAIN xIn -> InviteOutcomes \cup {NoCall}] :
         /\ \A i \in DOMAIN xIn : outs[i] \in OutcomesFor(xIn[i], xDry)
         /\ xDir' = outs
         /\ xOut' = ExecuteActions(xIn, xDry, outs).actions
         /\ xCalls' = ExecuteActions(xIn, xDry, outs).calls
         /\ xErr' = ExecuteActions(xIn, xDry, outs).err
    /\ xDone' = TRUE
    /\ UNCHANGED <<xIn, xDry, dvars, rvars, evars>>

ExecNext == AddAction \/ RunExecuteActions


-----------------------------------------------------------------------------
(* EnsureVerifiedEmailMappings: the Google email -> desired role map *)

RECURSIVE GoogleRoleLoop(_, _, _, _)
GoogleRoleLoop(m, group, role, i) ==
    IF i > Len(group) THEN m
    ELSE GoogleRoleLoop(IF group[i].Email # "" /\ IsActive(group[i])
                        THEN MapPut(m, ToLower(group[i].Email), role)
                        ELSE m,
                        group, role, i + 1)

GoogleRoleByEmail(membersGroup, ownersGroup) ==
    GoogleRoleLoop(GoogleRoleLoop(EmptyMap, membersGroup, RoleMember, 1),
                   ownersGroup, RoleOwner, 1)

-----------------------------------------------------------------------------
(* The invitation store (one DynamoDB table, one organization) *)

InvitationPending   == "pending"
InvitationResolved  == "resolved"
InvitationFailed    == "failed"
InvitationExpired   == "expired"
InvitationCancelled == "cancelled"
InvitationRemoved   == "removed"

\* sort keys: "INV#<id>" and "EXISTING#<username>"
InvSK(id)            == [kind |-> "INV", id |-> id, name |-> ""]
ExistingSK(username) == [kind |-> "EXISTING", id |-> NoID, name |-> username]

\* fmt.Sscanf(strings.TrimPrefix(sk, "INV#"), "%d", &invID): the prefix is
\* only cut from an INV key, and "EXISTING#..." does not scan as a number
ParsesAsInvID(sk) == sk.kind = "INV"

\* Indexed: the item carries gsi1pk/gsi2pk, so the email-index and the
\* status-index list it; InvitedAt is in days
InvitationMapping(sk, email, login, status, role, invitedAt, indexed) ==
    [SK |-> sk, Email |-> email, GitHubLogin |-> login, Status |-> status,
     Role |-> role, InvitedAt |-> invitedAt, Indexed |-> indexed]

NewInvitationMapping(invitationID, email, role, day) ==
    InvitationMapping(InvSK(invitationID), email, Nil, InvitationPending, role, day, TRUE)

StoreHas(items, sk) == \E r \in items : r.SK = sk
StoreGet(items, sk) == CHOOSE r \in items : r.SK = sk

\* PutItem: replaces whatever item has the key
SaveInvitation(items, mapping) == {r \in items : r.SK # mapping.SK} \cup {mapping}

\* UpdateItem creates the item when the key is absent; it then holds only the
\* attributes the update sets (zero values for the rest, and no index keys)
ItemForUpdate(items, sk) ==
    IF StoreHas(items, sk) THEN StoreGet(items, sk)
    ELSE InvitationMapping(sk, "", Nil, "", "", 0, FALSE)

ResolveInvitation(items, invitationID, githubLogin) ==
    SaveInvitation(items, [ItemForUpdate(items, InvSK(invitationID))
                              EXCEPT !.GitHubLogin = githubLogin, !.Status = InvitationResolved])

UpdateStatus(items, invitationID, status) ==
    SaveInvitation(items, [ItemForUpdate(items, InvSK(invitationID)) EXCEPT !.Status = status])

UpdateRole(items, invitationID, role) ==
    SaveInvitation(items, [ItemForUpdate(items, InvSK(invitationID)) EXCEPT !.Role = role])

\* Query on email-index with gsi1pk = "EMAIL#" + email: exact match on the email
GetByEmail(items, email) == {r \in items : r.Indexed /\ r.Email = email}

\* Query on status-index with gsi2sk = "STATUS#pending"
GetPendingInvitations(items) == {r \in items : r.Indexed /\ r.Status = InvitationPending}

-----------------------------------------------------------------------------
(* Reconciler *)

invitationExpiryDays == 7

\* The working state of one pass: the table, the audit cursor (0: none saved),
\* len(result.Errors), the store writes that succeeded and the counter of the
\* step in progress.  env holds what the pass observes: the set of failing
\* calls, today's date and the directory's answers.
PassState(items, auditCursor) ==
    [store |-> items, cursor |-> auditCursor, errors |-> 0, writes |-> {}, count |-> 0, last |-> 0]

Failed(st)   == [st EXCEPT !.errors = @ + 1]
Wrote(st, op, sk, items) ==
    [st EXCEPT !.store = items, !.writes = @ \cup {[op |-> op, sk |-> sk]}, !.count = @ + 1]
StartStep(st) == [st EXCEPT !.count = 0, !.last = 0]

\* the body of the named loop, applied to one element (defined after the bodies)
RECURSIVE LoopBody(_, _, _, _, _)

\* for _, x := range s { body }
RECURSIVE ForEach(_, _, _, _, _, _)
ForEach(body, st, s, i, arg, env) ==
    IF i > Len(s) THEN st ELSE ForEach(body, LoopBody(body, st, s[i], arg, env), s, i + 1, arg, env)

\* the same over the items a query returned; the bodies touch only the item they visit
RECURSIVE ForEachItem(_, _, _, _, _)
ForEachItem(body, st, S, arg, env) ==
    IF S = {} THEN st
    ELSE LET x == CHOOSE y \in S : TRUE
         IN  ForEachItem(body, LoopBody(body, st, x, arg, env), S \ {x}, arg, env)

resolveRole(action) == IF action.TargetRole # Nil THEN action.TargetRole ELSE RoleMember

\* a faulty variant: an executed invite is recorded even without an invitation id
saveNewInvitationAnyID(st, action, env) ==
    IF action.Type # ActionInvite \/ ~action.Executed THEN st
    ELSE IF "SaveInvitation" \in env.faults THEN Failed(st)
    ELSE Wrote(st, "SaveInvitation", InvSK(action.InvitationID),
               SaveInvitation(st.store, NewInvitationMapping(action.InvitationID, action.Email,
                                                             resolveRole(action), env.today)))

saveNewInvitation(st, action, env) ==
    IF action.Type # ActionInvite \/ ~action.Executed \/ action.InvitationID = NoID THEN st
    ELSE IF "SaveInvitation" \in env.faults THEN Failed(st)
    ELSE Wrote(st, "SaveInvitation", InvSK(action.InvitationID),
               SaveInvitation(st.store, NewInvitationMapping(action.InvitationID, action.Email,
                                                             resolveRole(action), env.today)))

saveNewInvitations(st, actions, env) ==
    ForEach("saveNewInvitation", StartStep(st), actions, 1, Nil, env)

markCancelledInvitation(st, action, env) ==
    IF action.Type # ActionCancelInvite \/ ~action.Executed \/ action.InvitationID = NoID THEN st
    ELSE IF "UpdateStatus" \in env.faults THEN Failed(st)
    ELSE Wrote(st, "UpdateStatus", InvSK(action.InvitationID),
               UpdateStatus(st.store, action.InvitationID, InvitationCancelled))

markCancelledInvitations(st, actions, env) ==
    ForEach("markCancelledInvitation", StartStep(st), actions, 1, Nil, env)

\* the inner loop of handleRemovedMembers over the records found for the email
markRemoved(st, m, env) ==
    IF m.Status # InvitationResolved \/ ~ParsesAsInvID(m.SK) THEN st
    ELSE IF "UpdateStatus" \in env.faults THEN Failed(st)
    ELSE Wrote(st, "UpdateStatus", m.SK, UpdateStatus(st.store, m.SK.id, InvitationRemoved))

handleRemovedMember(st, action, env) ==
    IF action.Type # ActionRemove \/ ~action.Executed \/ action.GoogleEmail = "" THEN st
    ELSE IF "GetByEmail" \in env.faults THEN Failed(st)
    ELSE ForEachItem("markRemoved", st, GetByEmail(st.store, action.GoogleEmail), Nil, env)

handleRemovedMembers(st, actions, env) ==
    ForEach("handleRemovedMember", StartStep(st), actions, 1, Nil, env)

\* the inner loop of handleRoleUpdates
updateRecordRole(st, m, role, env) ==
    IF m.Status # InvitationResolved \/ ~ParsesAsInvID(m.SK) THEN st
    ELSE IF "UpdateRole" \in env.faults THEN Failed(st)
    ELSE Wrote(st, "UpdateRole", m.SK, UpdateRole(st.store, m.SK.id, role))

handleRoleUpdate(st, action, env) ==
    IF action.Type # ActionUpdateRole \/ ~action.Executed \/ action.GoogleEmail = ""
       \/ action.TargetRole = Nil THEN st
    ELSE IF "GetByEmail" \in env.faults THEN Failed(st)
    ELSE ForEachItem("updateRecordRole", st, GetByEmail(st.store, action.GoogleEmail),
                     action.TargetRole, env)

handleRoleUpdates(st, actions, env) ==
    ForEach("handleRoleUpdate", StartStep(st), actions, 1, Nil, env)

handleAlreadyInOrgMember(st, action, env) ==
    IF ~action.AlreadyInOrg \/ ~action.Executed \/ action.Username = "" THEN st
    ELSE LET email == IF action.GoogleEmail = "" THEN action.Email ELSE action.GoogleEmail
             alreadyMapped ==
                 \E m \in GetByEmail(st.store, email) :
                     /\ m.Status = InvitationResolved /\ m.GitHubLogin # Nil
                     /\ EqualFold(m.GitHubLogin, action.Username)
         IN  IF "GetByEmail" \in env.faults THEN Failed(st)
             ELSE IF alreadyMapped THEN st
             ELSE IF "SaveInvitation" \in env.faults THEN Failed(st)
             ELSE Wrote(st, "SaveInvitation", ExistingSK(action.Username),
                        SaveInvitation(st.store,
                            InvitationMapping(ExistingSK(action.Username), email, action.Username,
                                              InvitationResolved, resolveRole(action),
                                              env.today, TRUE)))

handleAlreadyInOrgMembers(st, actions, env) ==
    ForEach("handleAlreadyInOrgMember", StartStep(st), actions, 1, Nil, env)

\* resolvePendingInvite without the tests on the stored record's status and login
resolvePendingInviteAnyStatus(st, invite, env) ==
    IF invite.InvitationID = NoID \/ invite.Username = Nil \/ invite.Username = "" THEN st
    ELSE IF "GetInvitation" \in env.faults THEN Failed(st)
    ELSE IF ~StoreHas(st.store, InvSK(invite.InvitationID)) THEN st
    ELSE IF "ResolveInvitation" \in env.faults THEN Failed(st)
    ELSE Wrote(st, "ResolveInvitation", InvSK(invite.InvitationID),
               ResolveInvitation(st.store, invite.InvitationID, invite.Username))

resolvePendingInvite(st, invite, env) ==
    IF invite.InvitationID = NoID \/ invite.Username = Nil \/ invite.Username = "" THEN st
    ELSE IF "GetInvitation" \in env.faults THEN Failed(st)
    ELSE IF ~StoreHas(st.store, InvSK(invite.InvitationID)) THEN st
    ELSE LET mapping == StoreGet(st.store, InvSK(invite.InvitationID))
         IN  IF mapping.Status # InvitationPending \/ mapping.GitHubLogin # Nil THEN st
             ELSE IF "ResolveInvitation" \in env.faults THEN Failed(st)
             ELSE Wrote(st, "ResolveInvitation", mapping.SK,
                        ResolveInvitation(st.store, invite.InvitationID, invite.Username))

resolvePendingWithLogin(st, env) ==
    IF "ListPendingInvitations" \in env.faults THEN Failed(StartStep(st))
    ELSE ForEach("resolvePendingInvite", StartStep(st), env.pendingInvites, 1, Nil, env)

\* a faulty variant: the audit event resolves the record whatever its status
resolveAuditEntryAnyStatus(st, entry, env) ==
    IF entry.InvitationID = 0 \/ entry.User = "" THEN st
    ELSE LET seen == [st EXCEPT !.last = IF entry.Timestamp > @ THEN entry.Timestamp ELSE @]
         IN  IF "GetInvitation" \in env.faults THEN Failed(seen)
             ELSE IF ~StoreHas(seen.store, InvSK(entry.InvitationID)) THEN seen
             ELSE IF "ResolveInvitation" \in env.faults THEN Failed(seen)
             ELSE Wrote(seen, "ResolveInvitation", InvSK(entry.InvitationID),
                        ResolveInvitation(seen.store, entry.InvitationID, entry.User))

resolveAuditEntry(st, entry, env) ==
    IF entry.InvitationID = 0 \/ entry.User = "" THEN st
    ELSE LET seen == [st EXCEPT !.last = IF entry.Timestamp > @ THEN entry.Timestamp ELSE @]
         IN  IF "GetInvitation" \in env.faults THEN Failed(seen)
             ELSE IF ~StoreHas(seen.store, InvSK(entry.InvitationID)) THEN seen
             ELSE IF StoreGet(seen.store, InvSK(entry.InvitationID)).Status # InvitationPending
             THEN seen
             ELSE IF "ResolveInvitation" \in env.faults THEN Failed(seen)
             ELSE Wrote(seen, "ResolveInvitation", InvSK(entry.InvitationID),
                        ResolveInvitation(seen.store, entry.InvitationID, entry.User))

\* Client.GetAuditLogAddMemberEvents: the org.add_member events, oldest first,
\* with a timestamp after afterTimestamp
GetAuditLogAddMemberEvents(log, afterTimestamp) ==
    SelectSeq(log, LAMBDA e : e.Timestamp > afterTimestamp)

resolveFromAuditLog(st, env) ==
    IF "GetAuditLogCursor" \in env.faults THEN Failed(StartStep(st))
    ELSE IF "GetAuditLogAddMemberEvents" \in env.faults THEN Failed(StartStep(st))
    ELSE LET done == ForEach("resolveAuditEntry", StartStep(st),
                             GetAuditLogAddMemberEvents(env.auditLog, st.cursor), 1, Nil, env)
         IN  IF done.last > 0
             THEN IF "SaveAuditLogCursor" \in env.faults THEN Failed(done)
                  ELSE [done EXCEPT !.cursor = done.last,
                                    !.writes = @ \cup {[op |-> "SaveAuditLogCursor",
                                                        sk |-> InvSK(NoID)]}]
             ELSE done

markFailed(st, invite, env) ==
    IF invite.InvitationID = NoID THEN st
    ELSE IF "GetInvitation" \in env.faults THEN Failed(st)
    ELSE IF ~StoreHas(st.store, InvSK(invite.InvitationID)) THEN st
    ELSE IF StoreGet(st.store, InvSK(invite.InvitationID)).Status # InvitationPending THEN st
    ELSE IF "UpdateStatus" \in env.faults THEN Failed(st)
    ELSE Wrote(st, "UpdateStatus", InvSK(invite.InvitationID),
               UpdateStatus(st.store, invite.InvitationID, InvitationFailed))

\* a faulty variant: a record is taken for expired on its seventh day, and
\* without looking at the live pending list
markExpiredEarly(st, mapping, failedIDs, pendingIDs, env) ==
    IF env.today - mapping.InvitedAt < invitationExpiryDays THEN st
    ELSE IF ~ParsesAsInvID(mapping.SK) THEN st
    ELSE IF mapping.SK.id \in failedIDs THEN st
    ELSE IF "UpdateStatus" \in env.faults THEN Failed(st)
    ELSE Wrote(st, "UpdateStatus", mapping.SK,
               UpdateStatus(st.store, mapping.SK.id, InvitationExpired))

markExpired(st, mapping, failedIDs, pendingIDs, env) ==
    IF env.today - mapping.InvitedAt <= invitationExpiryDays THEN st
    ELSE IF ~ParsesAsInvID(mapping.SK) THEN st
    ELSE IF mapping.SK.id \in failedIDs THEN st
    ELSE IF mapping.SK.id \in pendingIDs THEN st
    ELSE IF "UpdateStatus" \in env.faults THEN Failed(st)
    ELSE Wrote(st, "UpdateStatus", mapping.SK,
               UpdateStatus(st.store, mapping.SK.id, InvitationExpired))

\* returns the state with count = failed and the number expired in field last
handleFailedAndExpired(st, env) ==
    LET listed  == "ListFailedInvitations" \notin env.faults
        failedInvites == IF listed THEN env.failedInvites ELSE <<>>
        s1 == IF listed
              THEN ForEach("markFailed", StartStep(st), failedInvites, 1, Nil, env)
              ELSE Failed(StartStep(st))
        pendingIDs == {env.currentPending[i].InvitationID : i \in DOMAIN env.currentPending} \ {NoID}
        failedIDs  == {failedInvites[i].InvitationID : i \in DOMAIN failedInvites} \ {NoID}
    IN  IF "GetPendingInvitations" \in env.faults THEN Failed(s1)
        ELSE IF "ListPendingInvitations" \in env.faults THEN Failed(s1)
        ELSE LET s2 == ForEachItem("markExpired", [s1 EXCEPT !.count = 0],
                                   GetPendingInvitations(s1.store),
                                   [failedIDs |-> failedIDs, pendingIDs |-> pendingIDs], env)
             IN  [s2 EXCEPT !.count = s1.count, !.last = s2.count]

NoResult ==
    [NewInvitationsSaved |-> 0, Resolved |-> 0, Failed |-> 0, Expired |-> 0, Cancelled |-> 0,
     MembersRemoved |-> 0, RolesUpdated |-> 0, AlreadyInOrgResolved |-> 0,
     VerifiedEmailsMapped |-> 0, Errors |-> 0]

\* a faulty variant: the pass gives up after the first phase that reported an
\* error and returns an error
ReconcileStopOnError(items, auditCursor, executedActions, env) ==
    LET s1  == saveNewInvitations(PassState(items, auditCursor), executedActions, env)
        s1b == markCancelledInvitations(s1, executedActions, env)
        s1c == handleRemovedMembers(s1b, executedActions, env)
        s1d == handleRoleUpdates(s1c, executedActions, env)
        s1e == handleAlreadyInOrgMembers(s1d, executedActions, env)
        s2  == resolvePendingWithLogin(s1e, env)
        s3  == IF s2.errors > 0 THEN StartStep(s2) ELSE resolveFromAuditLog(s2, env)
        s4  == IF s3.errors > 0 THEN StartStep(s3) ELSE handleFailedAndExpired(s3, env)
    IN  [store  |-> s4.store,
         cursor |-> s4.cursor,
         writes |-> s4.writes,
         err    |-> IF s4.errors > 0 THEN "reconciliation failed" ELSE Nil,
         result |-> [NewInvitationsSaved  |-> s1.count,
                     Cancelled            |-> s1b.count,
                     MembersRemoved       |-> s1c.count,
                     RolesUpdated         |-> s1d.count,
                     AlreadyInOrgResolved |-> s1e.count,
                     Resolved             |-> s2.count + s3.count,
                     Failed               |-> s4.count,
                     Expired              |-> s4.last,
                     VerifiedEmailsMapped |-> 0,
                     Errors               |-> s4.errors]]

\* Reconcile: returns the table, the cursor, the ReconcileResult (Errors is
\* len(result.Errors)), the store writes that succeeded and the returned error
\* (`return result, nil`)
Reconcile(items, auditCursor, executedActions, env) ==
    LET s1  == saveNewInvitations(PassState(items, auditCursor), executedActions, env)
        s1b == markCancelledInvitations(s1, executedActions, env)
        s1c == handleRemovedMembers(s1b, executedActions, env)
        s1d == handleRoleUpdates(s1c, executedActions, env)
        s1e == handleAlreadyInOrgMembers(s1d, executedActions, env)
        s2  == resolvePendingWithLogin(s1e, env)
        s3  == resolveFromAuditLog(s2, env)
        s4  == handleFailedAndExpired(s3, env)
    IN  [store  |-> s4.store,
         cursor |-> s4.cursor,
         writes |-> s4.writes,
         err    |-> Nil,
         result |-> [NewInvitationsSaved  |-> s1.count,
                     Cancelled            |-> s1b.count,
                     MembersRemoved       |-> s1c.count,
                     RolesUpdated         |-> s1d.count,
                     AlreadyInOrgResolved |-> s1e.count,
                     Resolved             |-> s2.count + s3.count,
                     Failed               |-> s4.count,
                     Expired              |-> s4.last,
                     VerifiedEmailsMapped |-> 0,
                     Errors               |-> s4.errors]]

ensureVerifiedEmail(st, email, username, googleRoleByEmail, env) ==
    IF ToLower(email) \notin DOMAIN googleRoleByEmail THEN st
    ELSE IF "GetByEmail" \in env.faults THEN Failed(st)
    ELSE IF \E m \in GetByEmail(st.store, email) :
                m.Status = InvitationResolved /\ m.GitHubLogin # Nil
    THEN st
    ELSE IF "SaveInvitation" \in env.faults THEN Failed(st)
    ELSE Wrote(st, "SaveInvitation", ExistingSK(username),
               SaveInvitation(st.store,
                   InvitationMapping(ExistingSK(username), email, username, InvitationResolved,
                                     googleRoleByEmail[ToLower(email)], env.today, TRUE)))

LoopBody(body, st, x, arg, env) ==
    CASE body = "saveNewInvitation"        -> saveNewInvitation(st, x, env)
      [] body = "markCancelledInvitation"  -> markCancelledInvitation(st, x, env)
      [] body = "handleRemovedMember"      -> handleRemovedMember(st, x, env)
      [] body = "markRemoved"              -> markRemoved(st, x, env)
      [] body = "handleRoleUpdate"         -> handleRoleUpdate(st, x, env)
      [] body = "updateRecordRole"         -> updateRecordRole(st, x, arg, env)
      [] body = "handleAlreadyInOrgMember" -> handleAlreadyInOrgMember(st, x, env)
      [] body = "resolvePendingInvite"     -> resolvePendingInvite(st, x, env)
      [] body = "resolveAuditEntry"        -> resolveAuditEntry(st, x, env)
      [] body = "markFailed"               -> markFailed(st, x, env)
      [] body = "markExpired"              -> markExpired(st, x, arg.failedIDs, arg.pendingIDs, env)
      [] body = "ensureVerifiedEmail"      ->
             ensureVerifiedEmail(st, x, arg.verifiedEmails[x], arg.roles, env)

\* EnsureVerifiedEmailMappings; order is the order in which Go ranges over
\* verifiedEmails.  Returns the table and the updated result.
EnsureVerifiedEmailMappings(items, verifiedEmails, membersGroup, ownersGroup, result, order, env) ==
    IF DOMAIN verifiedEmails = {} THEN [store |-> items, result |-> result, writes |-> {}]
    ELSE LET roles == GoogleRoleByEmail(membersGroup, ownersGroup)
             done  == ForEach("ensureVerifiedEmail", PassState(items, 0), order, 1,
                              [verifiedEmails |-> verifiedEmails, roles |-> roles], env)
         IN  [store  |-> done.store,
              writes |-> done.writes,
              result |-> [result EXCEPT !.VerifiedEmailsMapped = @ + done.count,
                                        !.Errors = @ + done.errors]]

-----------------------------------------------------------------------------
(* Sync runs against a directory that changes between runs: the            *)
(* reconciliation part of Engine.Sync (ExecuteActions, Reconcile,          *)
(* EnsureVerifiedEmailMappings) with the invitation store carried from run *)
(* to run.                                                                 *)

\* the directory issues invitation ids 1..MaxID
MaxID == 2
\* Sync runs in one behaviour
MaxRuns == 3
\* entries in the directory's audit log
MaxAudit == 2
\* the last day of the calendar
MaxDay == 9

Logins == {"bob"}

\* a directory that hands out the same id again
ReusedInvitationID(invitations) == IF invitations = <<>> THEN 1 ELSE Len(invitations)

\* the id the directory gives the next invitation: ids are never reused
FreshInvitationID(invitations) == Len(invitations) + 1

Invitation(email, role, state, login) ==
    [email |-> email, role |-> role, state |-> state, login |-> login]

\* Client.ListPendingInvitations, in id order
ListPendingInvitations(invitations) ==
    LET ids == SelectSeq([i \in DOMAIN invitations |-> i],
                         LAMBDA i : invitations[i].state = "pending")
    IN  [k \in DOMAIN ids |->
            GitHubOrgMember(IF invitations[ids[k]].login = "" THEN Nil ELSE invitations[ids[k]].login,
                            invitations[ids[k]].email, invitations[ids[k]].role, TRUE, ids[k])]

\* Client.ListFailedInvitations: only the email and the id are filled in
ListFailedInvitations(invitations) ==
    LET ids == SelectSeq([i \in DOMAIN invitations |-> i],
                         LAMBDA i : invitations[i].state = "failed")
    IN  [k \in DOMAIN ids |->
            GitHubOrgMember(Nil, invitations[ids[k]].email, "", FALSE, ids[k])]

AuditLogEntry(timestamp, user, invitationID) ==
    [Timestamp |-> timestamp, User |-> user, InvitationID |-> invitationID]

\* the calls of one run that can fail; in a run the store's writes fail, or
\* its reads, or the directory's listings, or the failed-invitation listing
\* alone, or the store's resolving update alone, or nothing does
StoreWrites == {"SaveInvitation", "ResolveInvitation", "UpdateStatus", "UpdateRole",
                "SaveAuditLogCursor"}
StoreReads  == {"GetInvitation", "GetByEmail", "GetPendingInvitations", "GetAuditLogCursor"}
DirectoryListings == {"ListPendingInvitations", "GetAuditLogAddMemberEvents",
                      "ListFailedInvitations"}

FaultSets == {{}, StoreWrites, StoreReads, DirectoryListings, {"ListFailedInvitations"},
              {"ResolveInvitation"}}

\* the actions a run's diff can hand to the executor, given the directory
PlannedActions(invitations) ==
    LET pendingIDs == {i \in DOMAIN invitations : invitations[i].state = "pending"}
    IN  \* an address with a pending invitation is known to the diff: no second invite
        (IF \E i \in pendingIDs : invitations[i].email = "a@x" THEN {}
         ELSE {SyncAction(ActionInvite, "a@x", "", Nil, RoleMember,
                          "new member in Google group", NoID)})
        \cup
        {SyncAction(ActionRemove, "bob", "a@x", RoleMember, Nil, "removed from Google groups", NoID),
         SyncAction(ActionRemove, "bob", "", RoleMember, Nil, "removed from Google groups", NoID),
         SyncAction(ActionUpdateRole, "bob", "a@x", RoleMember, RoleOwner,
                    "role changed in Google groups", NoID)}
        \cup
        {SyncAction(ActionCancelInvite, invitations[i].email, "", Nil, Nil,
                    "no longer in Google groups", i) : i \in pendingIDs}

\* the answers of the directory to one run's calls; a created invitation gets
\* the next id (the result may come back without it)
RunOutcomesFor(action, invitations) ==
    CASE action.Type = ActionInvite ->
             {Outcome("ok", id, "", FALSE, "ok") : id \in {NoID, FreshInvitationID(invitations)}}
             \cup {Outcome("error", NoID, "", FALSE, "ok"),
                   Outcome("already", NoID, "", FALSE, "ok"),
                   Outcome("already", NoID, "bob", FALSE, "ok"),
                   Outcome("already", NoID, "bob", FALSE, "error")}
      [] OTHER -> {NoCall, Outcome("error", NoID, "", FALSE, "ok")}

\* what the executed action leaves behind in the directory
DirectoryAfter(invitations, action, out) ==
    IF out.primary # "ok" THEN invitations
    ELSE CASE action.Type = ActionInvite ->
                  Append(invitations, Invitation(action.Email, action.TargetRole, "pending", ""))
           [] action.Type = ActionCancelInvite ->
                  [invitations EXCEPT ![action.InvitationID].state = "gone"]
           [] OTHER -> invitations

NoPass == [pass |-> "none", faults |-> {}, noActions |-> TRUE, quiet |-> FALSE,
           changed |-> FALSE, writes |-> {}, ensureWrites |-> {}, result |-> NoResult,
           err |-> Nil, audited |-> {}, fetchedMax |-> 0, shown |-> {},
           executed |-> <<>>]

RunsIdle ==
    /\ store = {} /\ cursor = 0 /\ ghInv = <<>> /\ ghAudit = <<>> /\ today = 1 /\ runs = 0
    /\ rPc = "idle" /\ rLast = NoPass /\ rLost = {} /\ rQuiet = FALSE

\* --- the directory changes between runs ---

\* the directory shows the account behind a pending invitation
ExposeLogin ==
    /\ rPc = "idle" /\ runs < MaxRuns
    /\ \E i \in DOMAIN ghInv, u \in Logins :
         /\ ghInv[i].state = "pending" /\ ghInv[i].login = ""
         /\ ghInv' = [ghInv EXCEPT ![i].login = u]
    /\ rQuiet' = FALSE
    /\ UNCHANGED <<store, cursor, ghAudit, today, runs, rPc, rLast, rLost, dvars, xvars, evars>>

\* an account accepts a pending invitation: org.add_member with the invitation id
AcceptInvitation ==
    /\ rPc = "idle" /\ runs < MaxRuns /\ Len(ghAudit) < MaxAudit
    /\ \E i \in DOMAIN ghInv, u \in Logins :
         /\ ghInv[i].state = "pending"
         /\ ghInv[i].login \in {"", u}
         /\ ghInv' = [ghInv EXCEPT ![i].state = "gone"]
         /\ ghAudit' = Append(ghAudit, AuditLogEntry(Len(ghAudit) + 1, u, i))
    /\ rQuiet' = FALSE
    /\ UNCHANGED <<store, cursor, today, runs, rPc, rLast, rLost, dvars, xvars, evars>>

\* an account is added without an invitation: org.add_member without an id
AddMemberDirectly ==
    /\ rPc = "idle" /\ runs < MaxRuns /\ Len(ghAudit) < MaxAudit
    /\ \A k \in DOMAIN ghAudit : ghAudit[k].InvitationID # 0
    /\ \E u \in Logins : ghAudit' = Append(ghAudit, AuditLogEntry(Len(ghAudit) + 1, u, 0))
    /\ rQuiet' = FALSE
    /\ UNCHANGED <<store, cursor, ghInv, today, runs, rPc, rLast, rLost, dvars, xvars, evars>>

\* a pending invitation fails, or disappears (expired or cancelled by hand)
InvitationEnds ==
    /\ rPc = "idle" /\ runs < MaxRuns
    /\ \E i \in DOMAIN ghInv, s \in {"failed", "gone"} :
         /\ ghInv[i].state = "pending"
         /\ ghInv' = [ghInv EXCEPT ![i].state = s]
    /\ rQuiet' = FALSE
    /\ UNCHANGED <<store, cursor, ghAudit, today, runs, rPc, rLast, rLost, dvars, xvars, evars>>

TimePasses ==
    /\ rPc = "idle" /\ runs < MaxRuns
    /\ GetPendingInvitations(store) # {}
    /\ \E d \in {invitationExpiryDays, invitationExpiryDays + 1} :
         /\ today + d <= MaxDay
         /\ today' = today + d
    /\ UNCHANGED <<store, cursor, ghInv, ghAudit, runs, rPc, rLast, rLost, rQuiet, dvars, xvars, evars>>

\* --- one run: Engine.Sync from ExecuteActions on ---

\* at most this many actions in one run
MaxRunActions == 1

PassEnv(faults, invitations) ==
    [faults |-> faults, today |-> today,
     pendingInvites |-> ListPendingInvitations(invitations),
     currentPending |-> ListPendingInvitations(invitations),
     failedInvites  |-> ListFailedInvitations(invitations),
     auditLog       |-> ghAudit]

\* The pass lists the pending invitations twice and fetches the audit log in
\* between.  An account the first listing shows on an invitation may accept
\* it before the audit log is fetched: the event is then in the log the pass
\* fetches and the invitation is no longer in the second listing.  0: nobody
\* accepts during the pass.
AcceptedDuringPass(invitations, log) ==
    {0} \cup (IF Len(log) < MaxAudit
              THEN {i \in DOMAIN invitations :
                       invitations[i].state = "pending" /\ invitations[i].login # ""}
              ELSE {})

AuditLogAfter(invitations, log, accepted) ==
    IF accepted = 0 THEN log
    ELSE Append(log, AuditLogEntry(Len(log) + 1, invitations[accepted].login, accepted))

InvitationsAfter(invitations, accepted) ==
    IF accepted = 0 THEN invitations ELSE [invitations EXCEPT ![accepted].state = "gone"]

\* the handles the first pending listing of a pass shows, by invitation id
ShownHandles(invitations) ==
    {<<i, invitations[i].login>> : i \in {j \in DOMAIN invitations :
        invitations[j].state = "pending" /\ invitations[j].login # ""}}

RECURSIVE DirectoryLoop(_, _, _, _)
DirectoryLoop(invitations, actions, outs, i) ==
    IF i > Len(actions) THEN invitations
    ELSE DirectoryLoop(DirectoryAfter(invitations, actions[i], outs[i]), actions, outs, i + 1)

\* the outcomes the directory can give for the planned actions, taken in order
RECURSIVE RunOutcomes(_, _)
RunOutcomes(invitations, actions) ==
    IF actions = <<>> THEN {<<>>}
    ELSE UNION {{<<out>> \o rest :
                    rest \in RunOutcomes(DirectoryAfter(invitations, Head(actions), out),
                                         Tail(actions))} :
                out \in {o \in RunOutcomesFor(Head(actions), invitations) :
                            o.primary = "ok" /\ Head(actions).Type = ActionInvite
                                => Len(invitations) < MaxID}}

PlannedLists(invitations) ==
    UNION {[1..n -> PlannedActions(invitations)] : n \in 0..MaxRunActions}

\* the invitation ids in the audit events the pass fetched
AuditedIDs(log, auditCursor, faults) ==
    IF {"GetAuditLogCursor", "GetAuditLogAddMemberEvents"} \cap faults # {} THEN {}
    ELSE LET entries == GetAuditLogAddMemberEvents(log, auditCursor)
         IN  {entries[k].InvitationID : k \in DOMAIN entries} \ {0}

\* the largest timestamp among the audit events the pass fetched, 0 when it
\* fetched none
FetchedMax(log, auditCursor, faults) ==
    IF {"GetAuditLogCursor", "GetAuditLogAddMemberEvents"} \cap faults # {} THEN 0
    ELSE LET entries == GetAuditLogAddMemberEvents(log, auditCursor)
             stamps  == {entries[k].Timestamp : k \in DOMAIN entries}
         IN  IF stamps = {} THEN 0 ELSE CHOOSE t \in stamps : \A u \in stamps : u <= t

\* the invitations this run created whose SaveInvitation failed
UnsavedInvitations(executed, faults) ==
    IF "SaveInvitation" \notin faults THEN {}
    ELSE {executed[k].InvitationID : k \in {j \in DOMAIN executed :
             /\ executed[j].Type = ActionInvite /\ executed[j].Executed
             /\ executed[j].InvitationID # NoID}}

SyncReconcile ==
    /\ rPc = "idle" /\ runs < MaxRuns
    /\ \E planned \in PlannedLists(ghInv) :
       \E outs \in RunOutcomes(ghInv, planned), faults \in FaultSets :
       \E executed \in {ExecuteActions(planned, FALSE, outs).actions},
          after \in {DirectoryLoop(ghInv, planned, outs, 1)} :
       \E accepted \in AcceptedDuringPass(after, ghAudit) :
       \E log \in {AuditLogAfter(after, ghAudit, accepted)},
          late \in {InvitationsAfter(after, accepted)} :
       \E pass \in {Reconcile(store, cursor, executed,
                              [PassEnv(faults, after) EXCEPT
                                  !.auditLog = log,
                                  !.currentPending = ListPendingInvitations(late)])} :
         /\ ghInv' = late
         /\ ghAudit' = log
         /\ store' = pass.store
         /\ cursor' = pass.cursor
         /\ rLast' = [pass |-> "reconcile", faults |-> faults,
                      noActions |-> (\A k \in DOMAIN executed : ~executed[k].Executed), quiet |-> rQuiet,
                      changed |-> (pass.store # store \/ pass.cursor # cursor),
                      writes |-> pass.writes, ensureWrites |-> {}, result |-> pass.result,
                      err |-> pass.err, audited |-> AuditedIDs(log, cursor, faults),
                      fetchedMax |-> FetchedMax(log, cursor, faults),
                      shown |-> ShownHandles(after),
                      executed |-> SelectSeq(executed, LAMBDA a : a.Executed)]
         /\ rLost' = rLost \cup UnsavedInvitations(executed, faults)
         /\ rQuiet' = (pass.result.Errors = 0)
    /\ runs' = runs + 1
    /\ rPc' = "ensure"
    /\ UNCHANGED <<today, dvars, xvars, evars>>

\* what a run fetched before the diff: the two groups, and the verified
\* emails (Client.ListMembersWithVerifiedEmails keys them by lower-cased email)
RunInputs ==
    LET a == GoogleGroupMember("a@x", "USER", "ACTIVE", FALSE)
        b == GoogleGroupMember("b@x", "USER", "ACTIVE", FALSE)
    IN  {[members |-> <<a>>, owners |-> <<>>, verifiedEmails |-> EmptyMap],
         [members |-> <<a>>, owners |-> <<>>, verifiedEmails |-> MapPut(EmptyMap, "b@x", "carol")],
         [members |-> <<a, b>>, owners |-> <<b>>, verifiedEmails |-> MapPut(EmptyMap, "a@x", "bob")],
         [members |-> <<a, b>>, owners |-> <<b>>,
          verifiedEmails |-> MapPut(MapPut(EmptyMap, "a@x", "bob"), "b@x", "bob")]}

\* the run goes on: EnsureVerifiedEmailMappings, unless the verified emails
\* could not be fetched
SyncEnsureVerified ==
    /\ rPc = "ensure"
    /\ \/ UNCHANGED store
       \/ \E in \in RunInputs :
          \E order \in Perms(DOMAIN in.verifiedEmails) :
            store' = EnsureVerifiedEmailMappings(store, in.verifiedEmails, in.members, in.owners,
                                                 rLast.result, order,
                                                 PassEnv(rLast.faults, ghInv)).store
    /\ rPc' = "idle"
    /\ rLast' = NoPass
    /\ UNCHANGED <<cursor, ghInv, ghAudit, today, runs, rLost, rQuiet, dvars, xvars, evars>>

RunsNext ==
    \/ ExposeLogin
    \/ AcceptInvitation
    \/ AddMemberDirectly
    \/ InvitationEnds
    \/ TimePasses
    \/ SyncReconcile
    \/ SyncEnsureVerified

-----------------------------------------------------------------------------
(* Engine.Sync: the single-flight guard, with concurrent callers *)

Procs == {"p1", "p2"}

\* Sync calls one caller makes
MaxSyncCalls == 2

\* a faulty variant: the actions are executed before the pending invitations
\* are listed
SyncPhasesExecuteEarly ==
    <<"GetMembersGroup", "GetOwnersGroup", "applySuspensionStatus", "ListMembers",
      "ExecuteActions", "ListPendingInvitations", "buildEmailMappings",
      "ListMembersWithVerifiedEmails", "Reconcile", "EnsureVerifiedEmailMappings">>

\* the directory and store calls of a run, in program order; a failure of a
\* fatal one ends the run with that error
SyncPhases ==
    <<"GetMembersGroup", "GetOwnersGroup", "applySuspensionStatus", "ListMembers",
      "ListPendingInvitations", "buildEmailMappings", "ListMembersWithVerifiedEmails",
      "ExecuteActions", "Reconcile", "EnsureVerifiedEmailMappings">>

\* a faulty variant: a failed pending-invitation listing is passed over
FatalPhasesWithoutPending ==
    {"GetMembersGroup", "GetOwnersGroup", "applySuspensionStatus", "ListMembers"}

\* the calls whose error Sync returns (`return nil, err`)
FatalPhases ==
    {"GetMembersGroup", "GetOwnersGroup", "applySuspensionStatus", "ListMembers",
     "ListPendingInvitations"}

\* cfg.Sync.IgnoreSuspended, cfg.Sync.DryRun and e.reconciler != nil
EngineConfigs == [IgnoreSuspended : BOOLEAN, DryRun : BOOLEAN, Reconciler : BOOLEAN]

\* config.go: dry_run and ignore_suspended default to true, dynamodb.enabled to false
DefaultConfig == [IgnoreSuspended |-> TRUE, DryRun |-> TRUE, Reconciler |-> FALSE]

\* the outcome of the named call in the log; TRUE when it was not made
CallOK(log, phase) == \A k \in DOMAIN log : log[k].phase = phase => log[k].ok

\* a faulty variant: reconciliation also takes place in a dry run
PhaseEnabledInDryRun(phase, cfg, log) ==
    CASE phase = "applySuspensionStatus" -> cfg.IgnoreSuspended
      [] phase = "buildEmailMappings"    -> cfg.Reconciler
      [] phase = "Reconcile"             -> cfg.Reconciler
      [] phase = "EnsureVerifiedEmailMappings" ->
             cfg.Reconciler /\ CallOK(log, "ListMembersWithVerifiedEmails")
      [] OTHER -> TRUE

\* is the call of this phase made by a run with this configuration
PhaseEnabled(phase, cfg, log) ==
    CASE phase = "applySuspensionStatus" -> cfg.IgnoreSuspended
      [] phase = "buildEmailMappings"    -> cfg.Reconciler
      [] phase = "Reconcile"             -> cfg.Reconciler /\ ~cfg.DryRun
      [] phase = "EnsureVerifiedEmailMappings" ->
             \* reconcileResult != nil && verifiedEmails != nil
             /\ cfg.Reconciler /\ ~cfg.DryRun
             /\ CallOK(log, "ListMembersWithVerifiedEmails")
      [] OTHER -> TRUE

\* the phase that follows phase i, 0 when the run is over
NextPhase(i, cfg, log) ==
    LET later == {j \in DOMAIN SyncPhases : j > i /\ PhaseEnabled(SyncPhases[j], cfg, log)}
    IN  IF later = {} THEN 0 ELSE CHOOSE j \in later : \A k \in later : j <= k

EngineAtRest ==
    /\ eRunning = FALSE
    /\ eMu = Nil
    /\ ePc = [p \in Procs |-> "idle"]
    /\ ePhase = [p \in Procs |-> 0]
    /\ eCalls = [p \in Procs |-> 0]
    /\ eRet = [p \in Procs |-> "none"]
    /\ eCount = [p \in Procs |-> 0]
    /\ eLog = [p \in Procs |-> <<>>]

EngineIdle == EngineAtRest /\ eCfg = DefaultConfig

\* a caller invokes Sync: e.mu.Lock()
SyncLock(p) ==
    /\ ePc[p] = "idle" /\ eCount[p] < MaxSyncCalls
    /\ eMu = Nil
    /\ eMu' = p
    /\ ePc' = [ePc EXCEPT ![p] = "check"]
    /\ eCalls' = [eCalls EXCEPT ![p] = 0]
    /\ eRet' = [eRet EXCEPT ![p] = "none"]
    /\ eCount' = [eCount EXCEPT ![p] = @ + 1]
    /\ eLog' = [eLog EXCEPT ![p] = <<>>]
    /\ UNCHANGED <<eRunning, ePhase, eCfg, dvars, xvars, rvars>>

\* if e.running { e.mu.Unlock(); return nil, "sync already in progress" }
SyncCheck(p) ==
    /\ ePc[p] = "check"
    /\ IF eRunning
       THEN /\ eMu' = Nil
            /\ ePc' = [ePc EXCEPT ![p] = "idle"]
            /\ eRet' = [eRet EXCEPT ![p] = "sync already in progress"]
       ELSE /\ ePc' = [ePc EXCEPT ![p] = "set"]
            /\ UNCHANGED <<eMu, eRet>>
    /\ UNCHANGED <<eRunning, ePhase, eCalls, eCount, eCfg, eLog, dvars, xvars, rvars>>

\* SyncSet without raising the flag
SyncSetNoFlag(p) ==
    /\ ePc[p] = "set"
    /\ eMu' = Nil
    /\ ePc' = [ePc EXCEPT ![p] = "run"]
    /\ ePhase' = [ePhase EXCEPT ![p] = 1]
    /\ UNCHANGED <<eRunning, eCalls, eRet, eCount, eCfg, eLog, dvars, xvars, rvars>>

\* e.running = true; e.mu.Unlock()
SyncSet(p) ==
    /\ ePc[p] = "set"
    /\ eRunning' = TRUE
    /\ eMu' = Nil
    /\ ePc' = [ePc EXCEPT ![p] = "run"]
    /\ ePhase' = [ePhase EXCEPT ![p] = 1]
    /\ UNCHANGED <<eCalls, eRet, eCount, eCfg, eLog, dvars, xvars, rvars>>

\* the action lists CalculateDiff hands to ExecuteActions in a run
SyncPlans ==
    {<<>>, <<SyncAction(ActionInvite, "a@x", "", Nil, RoleMember, "new member in Google group", NoID)>>}

\* what a phase's calls can come to: ok is FALSE when one of them failed;
\* for ExecuteActions, planned is the list it was given, actions the list it
\* returned (SyncResult.Actions) and calls the directory calls it made, and
\* ok tells that no action carries an error
PhaseAnswers(phase, cfg) ==
    IF phase # "ExecuteActions"
    THEN {[phase |-> phase, ok |-> b, planned |-> <<>>, actions |-> <<>>, calls |-> <<>>] :
             b \in BOOLEAN}
    ELSE UNION {{LET r == ExecuteActions(plan, cfg.DryRun, outs)
                 IN  [phase |-> phase,
                      ok |-> \A i \in DOMAIN r.actions : r.actions[i].Error = Nil,
                      planned |-> plan, actions |-> r.actions, calls |-> r.calls] :
                    outs \in {o \in [DOMAIN plan -> {NoCall, Outcome("ok", 1, "", FALSE, "ok"),
                                                     Outcome("error", NoID, "", FALSE, "ok")}] :
                                 \A i \in DOMAIN plan : o[i] \in OutcomesFor(plan[i], cfg.DryRun)}} :
                plan \in SyncPlans}

\* the run makes the calls of its next phase; they succeed or fail
SyncCall(p) ==
    /\ ePc[p] = "run"
    /\ eCalls' = [eCalls EXCEPT ![p] = @ + 1]
    /\ \E answer \in PhaseAnswers(SyncPhases[ePhase[p]], eCfg) :
       \E log \in {Append(eLog[p], answer)} :
         /\ eLog' = [eLog EXCEPT ![p] = log]
         /\ IF ~answer.ok /\ SyncPhases[ePhase[p]] \in FatalPhases
            THEN /\ ePc' = [ePc EXCEPT ![p] = "defer"]
                 /\ eRet' = [eRet EXCEPT ![p] = "error"]
                 /\ UNCHANGED ePhase
            ELSE IF NextPhase(ePhase[p], eCfg, log) = 0
            THEN /\ ePc' = [ePc EXCEPT ![p] = "defer"]
                 /\ eRet' = [eRet EXCEPT ![p] = "result"]
                 /\ UNCHANGED ePhase
            ELSE /\ ePhase' = [ePhase EXCEPT ![p] = NextPhase(ePhase[p], eCfg, log)]
                 /\ UNCHANGED <<ePc, eRet>>
    /\ UNCHANGED <<eRunning, eMu, eCount, eCfg, dvars, xvars, rvars>>

\* the deferred function: e.mu.Lock()
SyncDeferLock(p) ==
    /\ ePc[p] = "defer"
    /\ eMu = Nil
    /\ eMu' = p
    /\ ePc' = [ePc EXCEPT ![p] = "reset"]
    /\ UNCHANGED <<eRunning, ePhase, eCalls, eRet, eCount, eCfg, eLog, dvars, xvars, rvars>>

\* a faulty variant: the flag is cleared only when the run returns a result
SyncDeferResetOnResult(p) ==
    /\ ePc[p] = "reset"
    /\ eRunning' = (eRet[p] # "result")
    /\ eMu' = Nil
    /\ ePc' = [ePc EXCEPT ![p] = "idle"]
    /\ ePhase' = [ePhase EXCEPT ![p] = 0]
    /\ UNCHANGED <<eCalls, eRet, eCount, eCfg, eLog, dvars, xvars, rvars>>

\* e.running = false; e.mu.Unlock(); Sync returns
SyncDeferReset(p) ==
    /\ ePc[p] = "reset"
    /\ eRunning' = FALSE
    /\ eMu' = Nil
    /\ ePc' = [ePc EXCEPT ![p] = "idle"]
    /\ ePhase' = [ePhase EXCEPT ![p] = 0]
    /\ UNCHANGED <<eCalls, eRet, eCount, eCfg, eLog, dvars, xvars, rvars>>

EngineNext ==
    \E p \in Procs :
        \/ SyncLock(p)
        \/ SyncCheck(p)
        \/ SyncSet(p)
        \/ SyncCall(p)
        \/ SyncDeferLock(p)
        \/ SyncDeferReset(p)

-----------------------------------------------------------------------------
(* One run after another: what a live run with a reconciler, in which every *)
(* call succeeds, leaves behind for the diff of the next run.               *)

\* Store.GetAllResolvedMappings: email -> login over the resolved items of the
\* status index; when several items carry one email, the one the query
\* returns last stays
GetAllResolvedMappings(items) ==
    LET found == {r \in items : r.Indexed /\ r.Status = InvitationResolved /\ r.GitHubLogin # Nil}
    IN  {f \in [{r.Email : r \in found} -> {r.GitHubLogin : r \in found}] :
            \A e \in DOMAIN f : \E r \in found : r.Email = e /\ r.GitHubLogin = f[e]}

\* Engine.buildEmailMappings: the snapshots it can return for the table
buildEmailMappings(items) ==
    LET pending == {r \in GetPendingInvitations(items) : ParsesAsInvID(r.SK)}
    IN  {EmailMappings(f, g) :
            f \in GetAllResolvedMappings(items),
            g \in {h \in [{r.Email : r \in pending} -> {r.SK.id : r \in pending}] :
                      \A e \in DOMAIN h : \E r \in pending : r.Email = e /\ r.SK.id = h[e]}}

\* a table the snapshot can have been taken from: every resolved hint is the
\* record of an invitation that was accepted (ids from 11), every pending hint
\* the record of an invitation
SnapshotStore(emailMappings) ==
    LET order == CHOOSE q \in Perms(DOMAIN emailMappings.Resolved) : TRUE
    IN  {InvitationMapping(InvSK(10 + k), order[k], emailMappings.Resolved[order[k]],
                           InvitationResolved, RoleMember, 1, TRUE) : k \in DOMAIN order}
        \cup {InvitationMapping(InvSK(emailMappings.PendingInvitations[e]), e, Nil,
                                InvitationPending, RoleMember, 1, TRUE) :
                 e \in DOMAIN emailMappings.PendingInvitations}

\* the directory carries out every call: an invitation is created with a new
\* id (from 21)
SuccessfulOutcomes(actions) ==
    [k \in DOMAIN actions |->
        IF actions[k].Type = ActionInvite
        THEN Outcome("ok", 20 + k, "", FALSE, "ok")
        ELSE Outcome("ok", NoID, "", FALSE, "ok")]

Handled(executed, type) == {k \in DOMAIN executed : executed[k].Type = type /\ executed[k].Executed}

\* Client.ListMembers after the run: removed accounts are gone, updated
\* roles are in place
MembersAfterRun(githubMembers, executed) ==
    LET stays(m) == ~\E k \in Handled(executed, ActionRemove) :
                        m.Username # Nil /\ EqualFold(executed[k].Email, m.Username)
        role(m)  == IF \E k \in Handled(executed, ActionUpdateRole) :
                           m.Username # Nil /\ EqualFold(executed[k].Email, m.Username)
                    THEN executed[CHOOSE k \in Handled(executed, ActionUpdateRole) :
                                     EqualFold(executed[k].Email, m.Username)].TargetRole
                    ELSE m.Role
        kept == SelectSeq(githubMembers, stays)
    IN  [i \in DOMAIN kept |-> [kept[i] EXCEPT !.Role = role(kept[i])]]

\* Client.ListPendingInvitations after the run: cancelled invitations are
\* gone, created ones are listed
PendingAfterRun(pendingInvites, executed) ==
    LET stays(m) == ~\E k \in Handled(executed, ActionCancelInvite) :
                        executed[k].InvitationID = m.InvitationID
        invites == SelectSeq(executed, LAMBDA a : a.Type = ActionInvite /\ a.Executed)
    IN  SelectSeq(pendingInvites, stays)
        \o [i \in DOMAIN invites |->
               GitHubOrgMember(Nil, invites[i].Email, invites[i].TargetRole, TRUE,
                               invites[i].InvitationID)]

\* Client.ListMembersWithVerifiedEmails after the run: only of accounts still
\* in the organization
VerifiedAfterRun(verifiedEmails, executed) ==
    LET stays == {e \in DOMAIN verifiedEmails :
                     ~\E k \in Handled(executed, ActionRemove) :
                          EqualFold(executed[k].Email, verifiedEmails[e])}
    IN  [e \in stays |-> verifiedEmails[e]]

\* Engine.Sync from ExecuteActions on, for the diff's arguments and result:
\* the arguments the next run's diff can get
NextRunInputs(in, actions) ==
    LET executed == ExecuteActions(actions, FALSE, SuccessfulOutcomes(actions)).actions
        members  == MembersAfterRun(in.githubMembers, executed)
        pending  == PendingAfterRun(in.pendingInvites, executed)
        env      == [faults |-> {}, today |-> 1, pendingInvites |-> pending,
                     currentPending |-> pending, failedInvites |-> <<>>, auditLog |-> <<>>]
        pass     == Reconcile(SnapshotStore(in.emailMappings), 0, executed, env)
    IN  {[membersGroup |-> in.membersGroup, ownersGroup |-> in.ownersGroup,
          githubMembers |-> members, pendingInvites |-> pending,
          removeExtraMembers |-> in.removeExtraMembers,
          emailMappings |-> mappings,
          verifiedEmails |-> VerifiedAfterRun(in.verifiedEmails, executed),
          allExecuted |-> \A k \in DOMAIN executed : executed[k].Executed,
          errors |-> pass.result.Errors] :
            mappings \in UNION {buildEmailMappings(
                                   EnsureVerifiedEmailMappings(pass.store, in.verifiedEmails,
                                       in.membersGroup, in.ownersGroup, pass.result,
                                       order, env).store) :
                                order \in Perms(DOMAIN in.verifiedEmails)}}

-----------------------------------------------------------------------------
(* Specifications *)

DiffInit == DiffStart /\ ExecIdle /\ RunsIdle /\ EngineIdle

SpecDiff == DiffInit /\ [][DiffNext]_vars

ExecInit ==
    /\ xIn = <<>> /\ xDry \in BOOLEAN /\ xDir = <<>> /\ xOut = <<>> /\ xCalls = <<>>
    /\ xErr = Nil /\ xDone = FALSE
    /\ DiffIdle /\ RunsIdle /\ EngineIdle

SpecExec == ExecInit /\ [][ExecNext]_vars

RunsInit == RunsIdle /\ DiffIdle /\ ExecIdle /\ EngineIdle

SpecRuns == RunsInit /\ [][RunsNext]_vars

EngineInit == EngineAtRest /\ eCfg \in EngineConfigs /\ DiffIdle /\ ExecIdle /\ RunsIdle

SpecEngine == EngineInit /\ [][EngineNext]_vars

-----------------------------------------------------------------------------
(* Claims about CalculateDiff, checked under SpecDiff *)

LowerEmails == {ToLower(e) : e \in Emails}

InGroup(group, key)       == \E i \in DOMAIN group : ToLower(group[i].Email) = key
ActiveInGroup(group, key) == \E i \in DOMAIN group : ToLower(group[i].Email) = key /\ IsActive(group[i])

\* key is in desired state: an active entry of either group
Desired(key) == ActiveInGroup(dIn.membersGroup, key) \/ ActiveInGroup(dIn.ownersGroup, key)

\* lowercased account handles of the target members
MemberHandles == {ToLower(m.Username) : m \in {g \in Range(dIn.githubMembers) : g.Username # Nil}}

\* identifiers the members and pending invites carry themselves
DirectlyKnown ==
    {ToLower(Identifier(m)) : m \in Range(dIn.githubMembers) \cup Range(dIn.pendingInvites)} \ {""}

\* the hints email -> handle of both sources, as pairs
ResolvedHints == {<<e, dIn.emailMappings.Resolved[e]>> : e \in DOMAIN dIn.emailMappings.Resolved}
VerifiedHints == {<<e, dIn.verifiedEmails[e]>> : e \in DOMAIN dIn.verifiedEmails}
AllHints      == ResolvedHints \cup VerifiedHints

\* emails that a hint links to a handle present among the members
HintKnown == {ToLower(h[1]) : h \in {g \in AllHints : ToLower(g[2]) \in MemberHandles}}

InvitesFor(key) == {i \in DOMAIN dOut : dOut[i].Type = ActionInvite /\ ToLower(dOut[i].Email) = key}
Removes         == {i \in DOMAIN dOut : dOut[i].Type = ActionRemove}

\* C1 (as claimed): in conservative mode every remove action targets a member
\* whose account handle is the handle of a resolved mapping-store hint; a member
\* known only through a verified-email hint is never removed.
C1_ConservativeRemoveOnlyMapped ==
    (dDone /\ ~dIn.removeExtraMembers) =>
        \A i \in Removes :
            \E h \in ResolvedHints : EqualFold(h[2], dOut[i].Email)

\* C5 (as claimed): an email listed in both groups has desired role owner,
\* whenever it has a desired role at all.
C5_BothGroupsMeansOwner ==
    dDone =>
        \A key \in LowerEmails :
            (InGroup(dIn.membersGroup, key) /\ InGroup(dIn.ownersGroup, key)
             /\ key \in DOMAIN RoleByEmail(dIn.membersGroup, dIn.ownersGroup))
            => RoleByEmail(dIn.membersGroup, dIn.ownersGroup)[key].role = RoleOwner

\* C5 (amended): an email listed in both groups whose owners-group entry is
\* active has desired role owner in CalculateDiff and in
\* EnsureVerifiedEmailMappings, whatever the order of the entries, and every
\* invite emitted for it carries role owner.
C5_ActiveOwnerWins ==
    dDone =>
        \A key \in LowerEmails :
            (InGroup(dIn.membersGroup, key) /\ ActiveInGroup(dIn.ownersGroup, key))
            => /\ key \in DOMAIN RoleByEmail(dIn.membersGroup, dIn.ownersGroup)
               /\ RoleByEmail(dIn.membersGroup, dIn.ownersGroup)[key].role = RoleOwner
               /\ key \in DOMAIN GoogleRoleByEmail(dIn.membersGroup, dIn.ownersGroup)
               /\ GoogleRoleByEmail(dIn.membersGroup, dIn.ownersGroup)[key] = RoleOwner
               /\ \A i \in InvitesFor(key) : dOut[i].TargetRole = RoleOwner

\* an email active in both groups, listed in different case, was invited as owner
C5_Witness ==
    /\ dDone
    /\ \E i \in DOMAIN dIn.membersGroup, j \in DOMAIN dIn.ownersGroup :
         /\ IsActive(dIn.membersGroup[i]) /\ IsActive(dIn.ownersGroup[j])
         /\ dIn.membersGroup[i].Email # dIn.ownersGroup[j].Email
         /\ ToLower(dIn.membersGroup[i].Email) = ToLower(dIn.ownersGroup[j].Email)
         /\ \E k \in InvitesFor(ToLower(dIn.membersGroup[i].Email)) : dOut[k].TargetRole = RoleOwner

\* the scenario of the specification: source {a: member, b: owner},
\* target {a: member}, no pending invite and no hint
C9_Scenario ==
    /\ DOMAIN dIn.emailMappings.Resolved = {}
    /\ DOMAIN dIn.emailMappings.PendingInvitations = {}
    /\ DOMAIN dIn.verifiedEmails = {}
    /\ dIn.membersGroup = <<GoogleGroupMember("a@x", "USER", "ACTIVE", FALSE)>>
    /\ dIn.ownersGroup = <<GoogleGroupMember("b@x", "USER", "ACTIVE", FALSE)>>
    /\ Len(dIn.githubMembers) = 1
    /\ dIn.githubMembers[1].Email = "a@x"
    /\ dIn.githubMembers[1].Role = RoleMember
    /\ dIn.pendingInvites = <<>>

\* C9: exactly one invite, carrying the desired role, for each desired email
\* absent from the known-identifiers set, and none for any other email; in the
\* scenario the only action is the invite of b as owner.
C9_InviteExactlyUnknownDesired ==
    dDone =>
        /\ \A key \in LowerEmails :
             IF Desired(key) /\ key \notin DirectlyKnown \cup HintKnown
             THEN /\ Cardinality(InvitesFor(key)) = 1
                  /\ \A i \in InvitesFor(key) :
                       dOut[i].TargetRole =
                           IF ActiveInGroup(dIn.ownersGroup, key) THEN RoleOwner ELSE RoleMember
             ELSE InvitesFor(key) = {}
        /\ C9_Scenario =>
             /\ Len(dOut) = 1
             /\ dOut[1].Type = ActionInvite
             /\ dOut[1].Email = "b@x"
             /\ dOut[1].TargetRole = RoleOwner

C9_Witness == dDone /\ C9_Scenario /\ Len(dOut) = 1

\* C10: a desired email that no member or pending invite carries, and whose
\* hints all name handles absent from the target members, is invited: a hint
\* suppresses an invite only if its handle is a current target member.
C10_StaleHintNeverSuppresses ==
    dDone =>
        \A key \in LowerEmails :
            (/\ Desired(key)
             /\ key \notin DirectlyKnown
             /\ \A h \in AllHints : ToLower(h[1]) = key => ToLower(h[2]) \notin MemberHandles)
            => InvitesFor(key) # {}

\* a hinted desired email whose handle is not a member, among other members, is invited
C10_Witness ==
    /\ dDone
    /\ dIn.githubMembers # <<>>
    /\ \E h \in AllHints :
         /\ Desired(ToLower(h[1]))
         /\ ToLower(h[2]) \notin MemberHandles
         /\ InvitesFor(ToLower(h[1])) # {}


\* the entries of the member listing that carry the handle
EntriesOf(handle) ==
    {i \in DOMAIN dIn.githubMembers :
        dIn.githubMembers[i].Username # Nil /\ ToLower(dIn.githubMembers[i].Username) = handle}

\* the target members the remove and role steps look at; the member listing
\* names an account once, so a handle listed twice is left out
ActiveMembers ==
    {m \in Range(dIn.githubMembers) :
        ~m.IsPending /\ m.Username # Nil /\ Cardinality(EntriesOf(ToLower(m.Username))) = 1}

\* the member's own identifier is in desired state
DirectDesired(m) == Desired(ToLower(Identifier(m)))

\* some hint links the member's handle to an email in desired state
HintDesired(m) ==
    \E h \in AllHints : ToLower(h[2]) = ToLower(m.Username) /\ Desired(ToLower(h[1]))

RemovedMember(m) == \E i \in Removes : dOut[i].Email = m.Username

\* C11 (as claimed): in aggressive mode a non-pending member with a handle is
\* removed if and only if neither its own identifier nor an email a hint
\* links to its handle is in desired state
C11_AggressiveRemoveIffUnmatched ==
    (dDone /\ dIn.removeExtraMembers) =>
        \A m \in ActiveMembers :
            RemovedMember(m) <=> (~DirectDesired(m) /\ ~HintDesired(m))

Cancels == {i \in DOMAIN dOut : dOut[i].Type = ActionCancelInvite}

\* C12: in conservative mode without a mapping snapshot (emailMappings nil)
\* no remove and no cancel_invite action is emitted
C12_NoSnapshotNoRemoval ==
    (dDone /\ ~dIn.removeExtraMembers /\ dIn.emailMappings.IsNil) =>
        Removes = {} /\ Cancels = {}

\* without a snapshot: a member whose verified email has left the groups and a
\* live pending invitation of an email that is not desired, both left alone
C12_Witness ==
    /\ dDone /\ ~dIn.removeExtraMembers /\ dIn.emailMappings.IsNil
    /\ \E m \in ActiveMembers : \E h \in VerifiedHints :
         ToLower(h[2]) = ToLower(m.Username) /\ ~Desired(ToLower(h[1])) /\ ~DirectDesired(m)
    /\ \E i \in DOMAIN dIn.pendingInvites :
         /\ dIn.pendingInvites[i].Email # Nil /\ dIn.pendingInvites[i].InvitationID # NoID
         /\ ~Desired(ToLower(dIn.pendingInvites[i].Email))
    /\ dOut = <<>>

PendingHints == dIn.emailMappings.PendingInvitations

\* the live pending invitations a cancel can name: they carry an email and an id
LiveInvites ==
    {i \in DOMAIN dIn.pendingInvites :
        /\ dIn.pendingInvites[i].Email # Nil /\ dIn.pendingInvites[i].Email # ""
        /\ dIn.pendingInvites[i].InvitationID # NoID}

\* the listing and the snapshot describe invitations: an id names one
\* invitation, listed once, and the snapshot holds one record per id, with the
\* email the invitation was sent to
InvitationsConsistent ==
    /\ \A i, j \in DOMAIN dIn.pendingInvites :
         (i # j /\ dIn.pendingInvites[i].InvitationID # NoID)
         => dIn.pendingInvites[i].InvitationID # dIn.pendingInvites[j].InvitationID
    /\ \A e1, e2 \in DOMAIN PendingHints : e1 # e2 => PendingHints[e1] # PendingHints[e2]
    /\ \A i \in DOMAIN dIn.pendingInvites : \A e \in DOMAIN PendingHints :
         dIn.pendingInvites[i].InvitationID = PendingHints[e]
         => i \in LiveInvites /\ ToLower(dIn.pendingInvites[i].Email) = ToLower(e)

CancelsOf(id) == {i \in Cancels : dOut[i].InvitationID = id}

CancelRule ==
    /\ \A i \in LiveInvites :
         ~Desired(ToLower(dIn.pendingInvites[i].Email))
         => \E c \in CancelsOf(dIn.pendingInvites[i].InvitationID) :
                ToLower(dOut[c].Email) = ToLower(dIn.pendingInvites[i].Email)
    /\ \A e \in DOMAIN PendingHints :
         ~Desired(ToLower(e))
         => \E c \in CancelsOf(PendingHints[e]) : ToLower(dOut[c].Email) = ToLower(e)
    /\ \A c \in Cancels : ~Desired(ToLower(dOut[c].Email))
    /\ \A c1, c2 \in Cancels : dOut[c1].InvitationID = dOut[c2].InvitationID => c1 = c2

\* C13 (as claimed): every live pending invitation and every pending hint
\* whose email is not in desired state is cancelled, none whose email is
\* desired, and no invitation id is cancelled twice
C13_CancelEveryStale == (dDone /\ InvitationsConsistent) => CancelRule

\* C13 (amended): the same, when a mapping snapshot is available
\* (emailMappings not nil); without one no invitation is cancelled
C13_CancelEveryStaleWithSnapshot ==
    (dDone /\ InvitationsConsistent) =>
        IF dIn.emailMappings.IsNil THEN Cancels = {} ELSE CancelRule

\* a stale invitation known live and by hint is cancelled once
C13_Witness ==
    /\ dDone /\ InvitationsConsistent /\ ~dIn.emailMappings.IsNil
    /\ \E i \in LiveInvites : \E e \in DOMAIN PendingHints :
         /\ PendingHints[e] = dIn.pendingInvites[i].InvitationID
         /\ ~Desired(ToLower(e))
         /\ Cardinality(CancelsOf(PendingHints[e])) = 1

\* the role of a desired email: owner if an active owners-group entry lists it
DesiredRole(key) == IF ActiveInGroup(dIn.ownersGroup, key) THEN RoleOwner ELSE RoleMember

\* the desired roles found for a member: by its own identifier, else through
\* the hints that name its handle
FoundRoles(m) ==
    IF DirectDesired(m) THEN {DesiredRole(ToLower(Identifier(m)))}
    ELSE {DesiredRole(ToLower(h[1])) :
            h \in {g \in AllHints : ToLower(g[2]) = ToLower(m.Username) /\ Desired(ToLower(g[1]))}}

RoleUpdatesOf(m) == {i \in DOMAIN dOut : dOut[i].Type = ActionUpdateRole /\ dOut[i].Email = m.Username}

\* C14 (as claimed): a non-pending member gets an update_role action, carrying
\* its current role and the desired role, exactly when a desired role found
\* for it (directly, else through a hint) differs from its current role
C14_RoleUpdateExactlyOnMismatch ==
    dDone =>
        \A m \in ActiveMembers :
            /\ (RoleUpdatesOf(m) # {}) <=> (FoundRoles(m) \ {m.Role} # {})
            /\ \A i \in RoleUpdatesOf(m) :
                 /\ dOut[i].CurrentRole = m.Role
                 /\ dOut[i].TargetRole \in FoundRoles(m) \ {m.Role}

\* what the claim compares of an action
ActionKey(a) ==
    [Type |-> a.Type, Email |-> a.Email, GoogleEmail |-> a.GoogleEmail,
     CurrentRole |-> a.CurrentRole, TargetRole |-> a.TargetRole, InvitationID |-> a.InvitationID]

ActionSet(actions) == {ActionKey(actions[i]) : i \in DOMAIN actions}

\* C24: the set of actions CalculateDiff returns is the same whatever order
\* the maps of the call are ranged over: a second call with the same
\* arguments returns the same set
C24_DiffIsAFunction ==
    dDone =>
        \A ord \in DiffOrders(dIn.membersGroup, dIn.ownersGroup, dIn.emailMappings,
                              dIn.verifiedEmails) :
            ActionSet(CalculateDiff(dIn.membersGroup, dIn.ownersGroup, dIn.githubMembers,
                                    dIn.pendingInvites, dIn.removeExtraMembers,
                                    dIn.emailMappings, dIn.verifiedEmails, ord))
                = ActionSet(dOut)

\* the verified-email hints without the one for email
WithoutHint(verifiedEmails, email) ==
    [x \in (DOMAIN verifiedEmails) \ {email} |-> verifiedEmails[x]]

\* the emails for which both the mapping store and the verified-email channel
\* carry a hint
DoublyHinted(emailMappings, verifiedEmails) ==
    {e \in DOMAIN verifiedEmails :
        \E r \in DOMAIN emailMappings.Resolved : ToLower(r) = ToLower(e)}

\* the action sets CalculateDiff can return for the call's arguments with the
\* given verified-email hints
DiffResultsWith(verifiedEmails) ==
    {ActionSet(CalculateDiff(dIn.membersGroup, dIn.ownersGroup, dIn.githubMembers,
                             dIn.pendingInvites, dIn.removeExtraMembers,
                             dIn.emailMappings, verifiedEmails, ord)) :
        ord \in DiffOrders(dIn.membersGroup, dIn.ownersGroup, dIn.emailMappings, verifiedEmails)}

\* C33: when the mapping store and the verified-email channel both carry a
\* hint for an email, CalculateDiff returns actions it also returns without
\* the verified-email hint for that email
C33_MappingHintWins ==
    dDone =>
        \A e \in DoublyHinted(dIn.emailMappings, dIn.verifiedEmails) :
            ActionSet(dOut) \in DiffResultsWith(WithoutHint(dIn.verifiedEmails, e))

\* the desired state of the call: the lower-cased emails of the active group members
DesiredEmails == DOMAIN RoleByEmail(dIn.membersGroup, dIn.ownersGroup)

\* the members of the organization whose own email identifier is in desired state
MembersInDesiredState ==
    {i \in DOMAIN dIn.githubMembers :
        /\ ~dIn.githubMembers[i].IsPending /\ dIn.githubMembers[i].Username # Nil
        /\ ToLower(Identifier(dIn.githubMembers[i])) \in DesiredEmails}

\* the member listing names every account once
MembersDistinct ==
    \A i, j \in DOMAIN dIn.githubMembers :
        (/\ dIn.githubMembers[i].Username # Nil /\ dIn.githubMembers[j].Username # Nil
         /\ ToLower(dIn.githubMembers[i].Username) = ToLower(dIn.githubMembers[j].Username))
        => i = j

\* C37: CalculateDiff returns no remove action for a member whose own email
\* identifier is in desired state, and no list with both a remove and a role
\* update for the same account handle
C37_NoRemoveOfDesiredMember ==
    (dDone /\ MembersDistinct) =>
        \A k \in DOMAIN dOut :
            dOut[k].Type = ActionRemove =>
                /\ \A i \in MembersInDesiredState :
                      dIn.githubMembers[i].Username # dOut[k].Email
                /\ \A j \in DOMAIN dOut :
                      ~(dOut[j].Type = ActionUpdateRole /\ dOut[j].Email = dOut[k].Email)

\* the action lists the next run's diff can return
NextRunDiffs(next) ==
    {CalculateDiff(next.membersGroup, next.ownersGroup, next.githubMembers,
                   next.pendingInvites, next.removeExtraMembers, next.emailMappings,
                   next.verifiedEmails, ord) :
        ord \in DiffOrders(next.membersGroup, next.ownersGroup, next.emailMappings,
                           next.verifiedEmails)}

\* C38: with a reconciler, after a live run in which every planned action is
\* executed and every reconciliation write succeeds, and with no other change
\* of the groups and the directory, the next run's diff returns no action
C38_FixpointAfterOneRun ==
    (dDone /\ MembersDistinct /\ ~dIn.emailMappings.IsNil) =>
        \A next \in NextRunInputs(dIn, dOut) :
            (next.allExecuted /\ next.errors = 0) => NextRunDiffs(next) = {<<>>}

\* the emails with an invitation in the pending list, lower-cased
PendingEmails(pendingInvites) ==
    {ToLower(pendingInvites[i].Email) :
        i \in {j \in DOMAIN pendingInvites :
                  pendingInvites[j].Email # Nil /\ pendingInvites[j].Email # ""}}

InvitedEmails(actions) ==
    {ToLower(actions[k].Email) : k \in {j \in DOMAIN actions : actions[j].Type = ActionInvite}}

\* no email has two invitations in the pending list
OnePerEmail(pendingInvites) ==
    \A i, j \in DOMAIN pendingInvites :
        (/\ pendingInvites[i].Email # Nil /\ pendingInvites[j].Email # Nil
         /\ ToLower(pendingInvites[i].Email) = ToLower(pendingInvites[j].Email)) => i = j

\* C40: CalculateDiff returns no invite for an email that has an invitation
\* in the pending list, whatever the case of its letters, in a first run and
\* in the run after it, so that the invitations a run creates never add a
\* second pending invitation for an email
C40_NoInviteWhilePending ==
    dDone =>
        /\ InvitedEmails(dOut) \cap PendingEmails(dIn.pendingInvites) = {}
        /\ ~dIn.emailMappings.IsNil =>
              \A next \in NextRunInputs(dIn, dOut) :
                  /\ OnePerEmail(dIn.pendingInvites) => OnePerEmail(next.pendingInvites)
                  /\ InvitedEmails(dOut) \subseteq PendingEmails(next.pendingInvites)
                  /\ \A actions \in NextRunDiffs(next) :
                        InvitedEmails(actions) \cap PendingEmails(next.pendingInvites) = {}

\* the diff met a desired email with a pending invitation listed in other
\* letter case, and invited another email that the next run finds pending
C40_Witness ==
    /\ dDone /\ ~dIn.emailMappings.IsNil
    /\ \E i \in DOMAIN dIn.pendingInvites, g \in DOMAIN dIn.membersGroup :
          /\ dIn.pendingInvites[i].Email # Nil
          /\ IsActive(dIn.membersGroup[g])
          /\ dIn.pendingInvites[i].Email # dIn.membersGroup[g].Email
          /\ ToLower(dIn.pendingInvites[i].Email) = ToLower(dIn.membersGroup[g].Email)
    /\ InvitedEmails(dOut) # {}

-----------------------------------------------------------------------------
(* Claims about ExecuteActions, checked under SpecExec *)

\* C3: a dry run issues no directory call and returns every action with
\* executed=false and every other field (type, error, ...) as it was handed in
C3_DryRunFrame ==
    (xDone /\ xDry) =>
        /\ xCalls = <<>>
        /\ Len(xOut) = Len(xIn)
        /\ \A i \in DOMAIN xIn :
             /\ xOut[i].Executed = FALSE
             /\ xOut[i] = [xIn[i] EXCEPT !.Executed = FALSE]

C3_Witness ==
    /\ xDone /\ xDry /\ Len(xIn) = MaxActions
    /\ \E i \in DOMAIN xIn : xIn[i].Type = ActionInvite /\ xIn[i].TargetRole # Nil
    /\ \E i \in DOMAIN xIn : xIn[i].Type = ActionRemove

\* the invite at position i was rejected as "already a member", the search
\* found exactly one handle and the role update succeeded
UpgradedAt(i) ==
    /\ xIn[i].Type = ActionInvite /\ xIn[i].TargetRole # Nil
    /\ xDir[i].primary = "already" /\ xDir[i].login # "" /\ xDir[i].update = "ok"

\* C4: an invite rejected as "already a member" whose email search finds one
\* handle and whose role update succeeds becomes an executed update_role action
\* flagged already-in-org, carrying the handle and the invited email, and a
\* role update for that handle with the desired role was issued
C4_AlreadyMemberUpgraded ==
    (xDone /\ ~xDry) =>
        \A i \in DOMAIN xIn : UpgradedAt(i) =>
            /\ xOut[i].Type = ActionUpdateRole
            /\ xOut[i].Executed
            /\ xOut[i].AlreadyInOrg
            /\ xOut[i].Username = xDir[i].login
            /\ xOut[i].GoogleEmail = xIn[i].Email
            /\ \E j \in DOMAIN xCalls :
                 xCalls[j] = CallUpdateMemberRole(xDir[i].login, xIn[i].TargetRole)

C4_Witness ==
    /\ xDone /\ ~xDry
    /\ \E i \in DOMAIN xIn :
         /\ UpgradedAt(i) /\ xIn[i].TargetRole = RoleOwner
         /\ xOut[i].Type = ActionUpdateRole /\ xOut[i].Username = "Carol"


\* the invite at position i was rejected as "already a member" and the search
\* gave no single handle (no match, several matches, or a search error)
NoHandleAt(i) ==
    /\ xIn[i].Type = ActionInvite /\ xIn[i].TargetRole # Nil
    /\ xDir[i].primary = "already" /\ xDir[i].login = ""

\* the positions whose handling calls for a role update: update_role actions
\* with a target role, and rejected invites whose search found a handle
RoleUpdatePositions ==
    {i \in DOMAIN xIn :
        \/ xIn[i].Type = ActionUpdateRole /\ xIn[i].TargetRole # Nil
        \/ /\ xIn[i].Type = ActionInvite /\ xIn[i].TargetRole # Nil
           /\ xDir[i].primary = "already" /\ xDir[i].login # ""}

RoleUpdateCalls == {j \in DOMAIN xCalls : xCalls[j].op = "UpdateMemberRole"}

\* C15: an invite rejected as "already a member" whose search gives no single
\* handle stays an invite with alreadyPresent set, not executed, an error
\* attached, and no role update is issued on its behalf: the role updates
\* of the run are those of the other positions only
C15_AlreadyMemberNoHandle ==
    (xDone /\ ~xDry) =>
        /\ \A i \in DOMAIN xIn : NoHandleAt(i) =>
             /\ xOut[i].Type = ActionInvite
             /\ xOut[i].AlreadyInOrg
             /\ ~xOut[i].Executed
             /\ xOut[i].Error # Nil
        /\ Cardinality(RoleUpdateCalls) = Cardinality(RoleUpdatePositions)
        /\ (\A i \in DOMAIN xIn : xIn[i].Type = ActionInvite /\ (xIn[i].TargetRole # Nil => NoHandleAt(i)))
               => RoleUpdateCalls = {}

C15_Witness ==
    /\ xDone /\ ~xDry /\ Len(xIn) = MaxActions
    /\ \E i \in DOMAIN xIn : NoHandleAt(i) /\ xDir[i].searchErr
    /\ \E i \in DOMAIN xIn : NoHandleAt(i) /\ ~xDir[i].searchErr
    /\ RoleUpdateCalls = {}


\* the action at position i passes the executor's own validation, so that its
\* primary directory operation is called
Attempted(i) ==
    CASE xIn[i].Type \in {ActionInvite, ActionUpdateRole} -> xIn[i].TargetRole # Nil
      [] xIn[i].Type = ActionRemove                     -> TRUE
      [] xIn[i].Type = ActionCancelInvite               -> xIn[i].InvitationID # NoID
      [] OTHER                                          -> FALSE

\* the primary directory operation of an action type
PrimaryOp(type) ==
    CASE type = ActionInvite       -> "CreateInvitation"
      [] type = ActionRemove       -> "RemoveMember"
      [] type = ActionUpdateRole   -> "UpdateMemberRole"
      [] type = ActionCancelInvite -> "CancelInvitation"
      [] OTHER                     -> "none"

CallsWithOp(op) == {j \in DOMAIN xCalls : xCalls[j].op = op}

CancelsWithoutID == {i \in DOMAIN xIn : xIn[i].Type = ActionCancelInvite /\ xIn[i].InvitationID = NoID}

\* C36: after a live ExecuteActions every invite, remove, role update and
\* cancel is either executed or carries an error, never both and never
\* neither; a cancel without invitation id carries an error and no cancel call
\* is made for it; a skip action has neither
C36_ExecutedOrError ==
    (xDone /\ ~xDry) =>
        /\ Len(xOut) = Len(xIn)
        /\ \A i \in DOMAIN xOut :
              IF xIn[i].Type = ActionSkip
              THEN ~xOut[i].Executed /\ xOut[i].Error = Nil
              ELSE xOut[i].Executed <=> (xOut[i].Error = Nil)
        /\ \A i \in CancelsWithoutID : xOut[i].Error # Nil /\ ~xOut[i].Executed
        /\ CancelsWithoutID # {} =>
              ~\E k \in DOMAIN xCalls : xCalls[k] = CallCancelInvitation(NoID)
        /\ (\A i \in DOMAIN xIn : i \in CancelsWithoutID) => xCalls = <<>>

\* a live call handled a cancel without invitation id next to an action it executed
C36_Witness ==
    /\ xDone /\ ~xDry /\ CancelsWithoutID # {}
    /\ \E i \in DOMAIN xOut : xOut[i].Executed
    /\ \E i \in CancelsWithoutID : xOut[i].Error # Nil


-----------------------------------------------------------------------------
(* Claims about Engine.Sync's guard, checked under SpecEngine *)

\* the caller has passed the running guard and has not yet reset it
PastGuard(p) == ePc[p] \in {"run", "defer", "reset"}

C2_GuardState ==
    /\ Cardinality({p \in Procs : PastGuard(p)}) <= 1
    /\ eRunning <=> (\E p \in Procs : PastGuard(p))
    /\ \A p \in Procs : eRet[p] = "sync already in progress" => eCalls[p] = 0
    /\ \A p \in Procs : ~PastGuard(p) => eCalls[p] = 0 \/ eRet[p] \in {"error", "result"}
    /\ eMu # Nil => ePc[eMu] \in {"check", "set", "reset"}

C2_RejectStep ==
    \A p \in Procs :
        (ePc[p] = "check" /\ eRunning /\ ePc'[p] # ePc[p]) =>
            /\ ePc'[p] = "idle"
            /\ eRet'[p] = "sync already in progress"
            /\ eCalls'[p] = 0
            /\ eRunning' = eRunning

\* C2: at most one Sync call is past the running guard at any time; a call
\* that finds another one in progress returns "sync already in progress" in its
\* next step, having made no directory or store call, and the mutex is never
\* held across such a call (nobody waits for a run to finish)
C2_SingleFlight == []C2_GuardState /\ [][C2_RejectStep]_vars

C2_Witness ==
    \E p, q \in Procs :
        /\ p # q
        /\ ePc[p] = "run" /\ eCalls[p] > 0
        /\ ePc[q] = "idle" /\ eRet[q] = "sync already in progress" /\ eCalls[q] = 0

\* the listings Sync cannot do without: both source groups, the target's
\* members and its pending invitations
MandatoryListings == {"GetMembersGroup", "GetOwnersGroup", "ListMembers", "ListPendingInvitations"}

\* the calls that change the directory or write to the store
MutatingPhases == {"ExecuteActions", "Reconcile", "EnsureVerifiedEmailMappings"}

Called(p, phase) == \E k \in DOMAIN eLog[p] : eLog[p][k].phase = phase

FailedCall(p, phases) == \E k \in DOMAIN eLog[p] : eLog[p][k].phase \in phases /\ ~eLog[p][k].ok

\* C18: a Sync call in which a mandatory listing failed returns an error, the
\* failed listing is its last call and no mutating call was made; a call that
\* got as far as ExecuteActions (the diff is computed) returns a result,
\* whatever the executor, the reconciler or the side fetches answered
C18_ListingsFatalThenNeverFatal ==
    \A p \in Procs :
        /\ FailedCall(p, MandatoryListings) =>
               /\ eRet[p] = "error"
               /\ ~eLog[p][Len(eLog[p])].ok
               /\ \A k \in DOMAIN eLog[p] : eLog[p][k].phase \notin MutatingPhases
        /\ Called(p, "ExecuteActions") =>
               /\ eRet[p] \in {"none", "result"}
               /\ ePc[p] = "idle" => eRet[p] = "result"

\* one caller was turned back by a failed pending-invitation listing, the
\* other returned a result although its actions and its reconciliation failed
C18_Witness ==
    \E p, q \in Procs :
        /\ ePc[p] = "idle" /\ eRet[p] = "error"
        /\ FailedCall(p, {"ListPendingInvitations"}) /\ ~Called(p, "ExecuteActions")
        /\ ePc[q] = "idle" /\ eRet[q] = "result"
        /\ FailedCall(q, {"ExecuteActions"}) /\ FailedCall(q, {"Reconcile"})

\* the fetches the run is meant to do without: the verified emails and the
\* suspension status
SideFetches == {"ListMembersWithVerifiedEmails", "applySuspensionStatus"}

\* C19: a Sync call in which the verified-email fetch or the suspension-status
\* lookup failed does not return an error
C19_SideFetchNeverFatal ==
    \A p \in Procs : FailedCall(p, SideFetches) => eRet[p] # "error"


\* C23: in a dry-run Sync neither Reconcile nor EnsureVerifiedEmailMappings is
\* called (the only calls that write to the store), no call of the run reaches
\* the directory through ExecuteActions, and the action list of the result is
\* the planned list with executed = false on every action
C23_DryRunNoReconciliation ==
    eCfg.DryRun =>
        \A p \in Procs :
            /\ ~Called(p, "Reconcile") /\ ~Called(p, "EnsureVerifiedEmailMappings")
            /\ \A k \in DOMAIN eLog[p] :
                 /\ eLog[p][k].calls = <<>>
                 /\ Len(eLog[p][k].actions) = Len(eLog[p][k].planned)
                 /\ \A i \in DOMAIN eLog[p][k].planned :
                      eLog[p][k].actions[i] = [eLog[p][k].planned[i] EXCEPT !.Executed = FALSE]
            /\ (ePc[p] = "idle" /\ Called(p, "ExecuteActions")) => eRet[p] = "result"

\* a dry run of an engine with a reconciler returned a result with a planned invite
C23_Witness ==
    /\ eCfg.DryRun /\ eCfg.Reconciler
    /\ \E p \in Procs :
         /\ ePc[p] = "idle" /\ eRet[p] = "result"
         /\ \E k \in DOMAIN eLog[p] :
              /\ eLog[p][k].phase = "ExecuteActions"
              /\ Len(eLog[p][k].planned) = 1 /\ eLog[p][k].planned[1].Type = ActionInvite
              /\ ~eLog[p][k].actions[1].Executed


-----------------------------------------------------------------------------
(* Claims about the reconciler and the store, checked under SpecRuns *)

TerminalStatuses == {InvitationFailed, InvitationExpired, InvitationCancelled, InvitationRemoved}

\* the pass that just ended is a second pass: nothing was executed for it,
\* the pass before it reported no error, and the directory has not changed since
SecondPass == rLast.pass = "reconcile" /\ rLast.quiet /\ rLast.noActions

C6_SecondPassQuiet ==
    SecondPass =>
        /\ rLast.result.Resolved = 0
        /\ rLast.result.NewInvitationsSaved = 0
        /\ rLast.result.AlreadyInOrgResolved = 0
        /\ \A w \in rLast.writes : w.op \notin {"ResolveInvitation", "SaveInvitation"}

\* every ResolveInvitation of a pass is for a record that was pending when the
\* pass began, or that the pass itself saved
C6_ResolveOnlyPending ==
    rLast'.pass = "reconcile" =>
        \A w \in rLast'.writes : w.op = "ResolveInvitation" =>
            \/ /\ StoreHas(store, w.sk)
               /\ StoreGet(store, w.sk).Status = InvitationPending
            \/ [op |-> "SaveInvitation", sk |-> w.sk] \in rLast'.writes

\* C6: a second reconciliation pass over unchanged directory signals and an
\* unchanged store reports resolved = 0, issues no ResolveInvitation and creates
\* no record; a record that is already resolved is never resolved again
C6_ResolutionIdempotent == []C6_SecondPassQuiet /\ [][C6_ResolveOnlyPending]_vars

C6_Witness ==
    /\ SecondPass /\ rLast.faults = {}
    /\ \E i \in DOMAIN ghInv :
         /\ ghInv[i].state = "pending" /\ ghInv[i].login # ""
         /\ StoreHas(store, InvSK(i))
         /\ StoreGet(store, InvSK(i)).Status = InvitationResolved

\* C7: at most one resolved record per account handle (compared without
\* case), over INV#<id> and EXISTING#<handle> records alike
C7_OneResolvedPerHandle ==
    \A r1, r2 \in store :
        (/\ r1.Status = InvitationResolved /\ r2.Status = InvitationResolved
         /\ r1.GitHubLogin # Nil /\ r2.GitHubLogin # Nil
         /\ EqualFold(r1.GitHubLogin, r2.GitHubLogin))
        => r1.SK = r2.SK

\* C8: a record that is failed, expired, cancelled or removed is never
\* pending again
C8_NeverBackToPending ==
    [][\A r \in store : r.Status \in TerminalStatuses =>
          \A r2 \in store' : r2.SK = r.SK => r2.Status # InvitationPending]_vars

\* a pass saved a new pending record while an older record, untouched by the
\* pass, was in a final status
C8_Witness ==
    /\ rLast.pass = "reconcile"
    /\ \E r1, r2 \in store :
         /\ r1.Status \in TerminalStatuses
         /\ \A w \in rLast.writes : w.sk # r1.SK
         /\ r2.Status = InvitationPending
         /\ [op |-> "SaveInvitation", sk |-> r2.SK] \in rLast.writes


\* The errors phases 2 to 4 must report in a pass where the calls in faults
\* fail, counted record by record from what the pass was given: the table and
\* cursor it started from, the directory's invitations and audit log, the date.
\* (When writes fail the table stays as it was; when reads or listings fail the
\* count does not depend on the table.)
LoginShown(invitations) ==
    {i \in DOMAIN invitations : invitations[i].state = "pending" /\ invitations[i].login # ""}

FailedShown(invitations) == {i \in DOMAIN invitations : invitations[i].state = "failed"}

StoredPending(items, id) ==
    \E r \in items : r.SK = InvSK(id) /\ r.Status = InvitationPending

NewAuditEntries(log, auditCursor) ==
    {k \in DOMAIN log : /\ log[k].Timestamp > auditCursor
                        /\ log[k].InvitationID # 0 /\ log[k].User # ""}

Overdue(items, invitations, day) ==
    {r \in items : /\ r.Indexed /\ r.Status = InvitationPending /\ r.SK.kind = "INV"
                   /\ day - r.InvitedAt > invitationExpiryDays
                   /\ r.SK.id \notin DOMAIN invitations
                      \/ invitations[r.SK.id].state \notin {"pending", "failed"}}

\* the invitation ids the first pending listing showed with a handle
ShownIDs(shown) == {p[1] : p \in shown}

LaterPhaseErrors(faults, items, auditCursor, shown, invitations, log, day) ==
    CASE faults = {} -> 0
      [] faults = DirectoryListings ->
             \* phase 2, phase 3, and both listings of phase 4
             1 + 1 + 2
      [] faults = {"ListFailedInvitations"} -> 1
      [] faults = {"ResolveInvitation"} ->
             Cardinality({i \in shown :
                             \E r \in items : /\ r.SK = InvSK(i) /\ r.Status = InvitationPending
                                              /\ r.GitHubLogin = Nil})
             + Cardinality({k \in NewAuditEntries(log, auditCursor) :
                               StoredPending(items, log[k].InvitationID)})
      [] faults = StoreReads ->
             Cardinality(shown) + 1
             + Cardinality(FailedShown(invitations)) + 1
      [] faults = StoreWrites ->
             Cardinality({i \in shown :
                             \E r \in items : /\ r.SK = InvSK(i) /\ r.Status = InvitationPending
                                              /\ r.GitHubLogin = Nil})
             + Cardinality({k \in NewAuditEntries(log, auditCursor) :
                               StoredPending(items, log[k].InvitationID)})
             + (IF NewAuditEntries(log, auditCursor) # {} THEN 1 ELSE 0)
             + Cardinality({i \in FailedShown(invitations) : StoredPending(items, i)})
             + Cardinality(Overdue(items, invitations, day))

\* a reconciliation pass: store and cursor are what it started from, ghInv'
\* the directory it saw, rLast' what it returned
C17_Pass ==
    (rPc = "idle" /\ rPc' = "ensure") =>
        /\ rLast'.err = Nil
        /\ rLast'.result.Errors
               >= LaterPhaseErrors(rLast'.faults, store, cursor, ShownIDs(rLast'.shown),
                                      ghInv', ghAudit', today)
        /\ rLast'.noActions =>
               rLast'.result.Errors
                   = LaterPhaseErrors(rLast'.faults, store, cursor, ShownIDs(rLast'.shown),
                                      ghInv', ghAudit', today)

\* C17: Reconcile returns a nil error, and its error list holds one entry for
\* every failing record and listing of phases 2, 3 and 4 whatever failed
\* before: no error stops the remaining records of a phase or a later phase
C17_EveryPhaseRuns == [][C17_Pass]_vars

\* a pass in which a record of phase 2 and a record of phase 4 failed and both
\* phase 3 and the expiry check reported their own error
C17_Witness ==
    /\ rLast.pass = "reconcile" /\ rLast.faults = StoreReads
    /\ rLast.shown # {} /\ FailedShown(ghInv) # {}
    /\ rLast.result.Errors = 4 /\ rLast.err = Nil


\* the pass that just ended met the invitation: it is in the live pending list
\* with its account shown, or in the audit events the pass fetched
MetByPass(i) ==
    \/ ghInv[i].state = "pending" /\ ghInv[i].login # ""
    \/ i \in rLast.audited

\* C20: when an invitation was created but its pending record could not be
\* written, a later pass in which nothing fails and which meets the invitation
\* in the live pending list or in the audit events leaves a record of it
C20_LaterRunRecovers ==
    (rLast.pass = "reconcile" /\ rLast.faults = {}) =>
        \A i \in rLost : MetByPass(i) =>
            \E r \in store : r.SK = InvSK(i) /\ r.Email = ghInv[i].email


CursorWritten == \E w \in rLast.writes : w.op = "SaveAuditLogCursor"

\* C21: after a pass in which no call failed, the persisted cursor is the
\* largest timestamp of the audit events the pass fetched when it fetched
\* any, and the cursor was not written when it fetched none
C21_CursorIsMaxFetched ==
    (rLast.pass = "reconcile" /\ rLast.faults = {}) =>
        /\ rLast.fetchedMax > 0 => CursorWritten /\ cursor = rLast.fetchedMax
        /\ rLast.fetchedMax = 0 => ~CursorWritten


\* the records a pass set to expired: expired after it and not before
NewlyExpired(before, after) ==
    {r \in after : /\ r.Status = InvitationExpired
                   /\ ~\E q \in before : q.SK = r.SK /\ q.Status = InvitationExpired}

\* the failed list the pass obtained: empty when the listing failed
FailedListOf(invitations, faults) ==
    IF "ListFailedInvitations" \in faults THEN {} ELSE FailedShown(invitations)

\* a reconciliation pass: store is the table it started from, store' the table
\* it left, ghInv' the directory it saw
C22_Pass ==
    (rPc = "idle" /\ rPc' = "ensure") =>
        /\ \A r \in NewlyExpired(store, store') :
             /\ r.SK.kind = "INV"
             /\ \E q \in store : q.SK = r.SK /\ q.Status = InvitationPending
             /\ today - r.InvitedAt > invitationExpiryDays
             /\ r.SK.id \in DOMAIN ghInv' => ghInv'[r.SK.id].state # "pending"
             /\ r.SK.id \notin FailedListOf(ghInv', rLast'.faults)
             /\ [op |-> "UpdateStatus", sk |-> r.SK] \in rLast'.writes
        /\ rLast'.result.Expired = Cardinality(NewlyExpired(store, store'))
        /\ rLast'.faults = {} =>
               \A q \in Overdue(store, ghInv', today) :
                   \E r \in store' : r.SK = q.SK /\ r.Status # InvitationPending

\* C22: a pass sets to expired only records that were pending, are more than 7
\* days old and whose invitation is neither in the live pending list nor in
\* the failed list the pass obtained, with one status write each; and when no
\* call fails it leaves no such record pending
C22_ExpiredIffOverdue == [][C22_Pass]_vars

\* a pass expired one record and left alone another one, still pending in
\* the directory
C22_Witness ==
    /\ rLast.pass = "reconcile" /\ rLast.result.Expired = 1
    /\ \E r \in store : r.Status = InvitationExpired /\ today - r.InvitedAt > invitationExpiryDays
    /\ \E r \in store : /\ r.Status = InvitationPending /\ r.SK.kind = "INV"
                        /\ ghInv[r.SK.id].state = "pending"


\* the five edges of the status lifecycle
LifecycleEdges ==
    {<<InvitationPending, InvitationResolved>>, <<InvitationPending, InvitationFailed>>,
     <<InvitationPending, InvitationExpired>>, <<InvitationPending, InvitationCancelled>>,
     <<InvitationResolved, InvitationRemoved>>}

C25_Step ==
    \A r \in store, q \in store' :
        (q.SK = r.SK /\ q.Status # r.Status) => <<r.Status, q.Status>> \in LifecycleEdges

\* C25: a record whose status differs before and after a step of a run went
\* along one of the five lifecycle edges
C25_OnlyLifecycleEdges == [][C25_Step]_vars


\* the executed actions of the given type that carry a source email
HandledWithEmail(actions, type) ==
    {k \in DOMAIN actions : /\ actions[k].Type = type /\ actions[k].Executed
                            /\ actions[k].GoogleEmail # ""}

\* the records a pass set to removed
NewlyRemoved(before, after) ==
    {r \in after : /\ r.Status = InvitationRemoved
                   /\ ~\E q \in before : q.SK = r.SK /\ q.Status = InvitationRemoved}

\* a reconciliation pass in which no call failed: store is the table it
\* started from, store' the table it left, rLast'.executed the executed
\* actions among those it got
C26_Pass ==
    (rPc = "idle" /\ rPc' = "ensure" /\ rLast'.faults = {}) =>
        /\ \A k \in HandledWithEmail(rLast'.executed, ActionRemove) :
             \A q \in store :
                 (q.Email = rLast'.executed[k].GoogleEmail /\ q.Status = InvitationResolved) =>
                     \E r \in store' : r.SK = q.SK /\ r.Status = InvitationRemoved
        /\ HandledWithEmail(rLast'.executed, ActionRemove) = {} =>
               /\ NewlyRemoved(store, store') = {}
               /\ rLast'.result.MembersRemoved = 0

\* C26: after a pass that handled an executed remove action with a source
\* email, every record that was resolved for that email is removed, under an
\* INV# key or an EXISTING# key; a remove without source email writes nothing
C26_RemovedEveryResolved == [][C26_Pass]_vars


C27_Pass ==
    (rPc = "idle" /\ rPc' = "ensure" /\ rLast'.faults = {}) =>
        \A k \in HandledWithEmail(rLast'.executed, ActionUpdateRole) :
            rLast'.executed[k].TargetRole # Nil =>
                \A q \in store :
                    (q.Email = rLast'.executed[k].GoogleEmail /\ q.Status = InvitationResolved) =>
                        \E r \in store' : r.SK = q.SK /\ r.Role = rLast'.executed[k].TargetRole

\* C27: after a pass in which no call failed and that handled an executed
\* update_role action with a source email and a desired role, every record that
\* was resolved for that email carries the desired role, under an INV# key or
\* an EXISTING# key
C27_RoleOfEveryResolved == [][C27_Pass]_vars


C28_Pass ==
    (rPc = "idle" /\ rPc' = "ensure") =>
        \A r \in NewlyExpired(store, store') :
            (r.SK.kind = "INV" /\ r.SK.id \in DOMAIN ghInv') => ghInv'[r.SK.id].state # "failed"

\* C28: a pass never sets to expired a record whose invitation is in the
\* directory's failed list (so no record is marked failed and then expired
\* in one pass, only failed invitations being marked failed)
C28_FailedNeverExpired == [][C28_Pass]_vars


\* the executed already-present actions: invites upgraded to a role update of
\* the account the search found
AlreadyPresent(actions) ==
    {k \in DOMAIN actions : /\ actions[k].AlreadyInOrg /\ actions[k].Executed
                            /\ actions[k].Username # ""}

\* the handle has a resolved record, whatever its email
HandleResolved(items, handle) ==
    \E q \in items : /\ q.Status = InvitationResolved /\ q.GitHubLogin # Nil
                     /\ EqualFold(q.GitHubLogin, handle)

SourceEmail(action) == IF action.GoogleEmail = "" THEN action.Email ELSE action.GoogleEmail

C29_Pass ==
    (rPc = "idle" /\ rPc' = "ensure" /\ rLast'.faults = {}) =>
        \A k \in AlreadyPresent(rLast'.executed) :
            LET action == rLast'.executed[k]
            IN  IF HandleResolved(store, action.Username)
                THEN /\ [op |-> "SaveInvitation", sk |-> ExistingSK(action.Username)]
                            \notin rLast'.writes
                     /\ rLast'.result.AlreadyInOrgResolved = 0
                ELSE /\ rLast'.result.AlreadyInOrgResolved = 1
                     /\ \E r \in store' :
                          /\ r.SK = ExistingSK(action.Username)
                          /\ r.Status = InvitationResolved
                          /\ r.Email = SourceEmail(action)
                          /\ r.GitHubLogin = action.Username
                          /\ r.Role = action.TargetRole

\* C29: for an executed already-present action, a pass in which no call fails
\* writes no EXISTING# record and counts nothing when the handle already has a
\* resolved record, whatever its email; otherwise it writes one resolved
\* record EXISTING#<handle> with the source email, the handle and the role
C29_AlreadyPresentOncePerHandle == [][C29_Pass]_vars


\* the email is in desired state: an active member of one of the two groups
ActiveIn(group, email) ==
    \E i \in DOMAIN group : /\ group[i].Email # "" /\ IsActive(group[i])
                            /\ ToLower(group[i].Email) = ToLower(email)

DesiredRoleOf(in, email) == IF ActiveIn(in.owners, email) THEN RoleOwner ELSE RoleMember

\* the hints the operation is to record: in desired state and without a
\* resolved record in the table
HintsToRecord(in, items) ==
    {e \in DOMAIN in.verifiedEmails :
        /\ ActiveIn(in.members, e) \/ ActiveIn(in.owners, e)
        /\ ~\E r \in items : r.Email = e /\ r.Status = InvitationResolved}

EnsureWritesFor(in, hints) ==
    {[op |-> "SaveInvitation", sk |-> ExistingSK(in.verifiedEmails[e])] : e \in hints}

\* what EnsureVerifiedEmailMappings does when the run that has reached it
\* goes on with input in, ranging over the hints in the given order
EnsureOutcome(in, order) ==
    EnsureVerifiedEmailMappings(store, in.verifiedEmails, in.members, in.owners,
                                rLast.result, order, PassEnv(rLast.faults, ghInv))

C30_Outcome(in, out) ==
    LET hints == HintsToRecord(in, store)
    IN  /\ out.writes \subseteq EnsureWritesFor(in, hints)
        /\ out.result.VerifiedEmailsMapped
               <= rLast.result.VerifiedEmailsMapped + Cardinality(hints)
        /\ hints = {} => out.store = store
        /\ rLast.faults = {} =>
              /\ out.writes = EnsureWritesFor(in, hints)
              /\ out.result.VerifiedEmailsMapped
                     = rLast.result.VerifiedEmailsMapped + Cardinality(hints)
              /\ \A e \in hints :
                    \E r \in out.store, e2 \in hints :
                        /\ r.SK = ExistingSK(in.verifiedEmails[e])
                        /\ in.verifiedEmails[e2] = in.verifiedEmails[e]
                        /\ r.Status = InvitationResolved
                        /\ r.GitHubLogin = in.verifiedEmails[e]
                        /\ r.Email = e2
                        /\ r.Role = DesiredRoleOf(in, e2)

\* C30: EnsureVerifiedEmailMappings writes a resolved EXISTING#<handle> record,
\* with role owner for an active owners-group email and member otherwise, for
\* exactly the hints in desired state without a resolved record, and counts
\* them; for every other hint, and for an empty hint map, it writes nothing
\* and counts nothing
C30_EnsureRecordsExactlyNewHints ==
    rPc = "ensure" =>
        \A in \in RunInputs : \A order \in Perms(DOMAIN in.verifiedEmails) :
            C30_Outcome(in, EnsureOutcome(in, order))


\* the record of invitation id is pending when the resolution phases begin:
\* pending before the pass and not cancelled by it, or saved by it
PendingAtResolution(id, before, executed, writes) ==
    \/ /\ StoredPending(before, id)
       /\ ~\E k \in DOMAIN executed : /\ executed[k].Type = ActionCancelInvite
                                      /\ executed[k].InvitationID = id
    \/ [op |-> "SaveInvitation", sk |-> InvSK(id)] \in writes

\* the handles the pass is shown for invitation id: by the live pending list
\* and by the audit events after the cursor
SignalledHandles(id, shown, log, auditCursor) ==
    {p[2] : p \in {q \in shown : q[1] = id}}
    \cup {log[k].User : k \in {j \in NewAuditEntries(log, auditCursor) :
                                 log[j].InvitationID = id}}

ResolvedInPass(before, executed, writes, shown, log, auditCursor) ==
    {id \in 1..MaxID : /\ PendingAtResolution(id, before, executed, writes)
                       /\ SignalledHandles(id, shown, log, auditCursor) # {}}

C31_Pass ==
    (rPc = "idle" /\ rPc' = "ensure" /\ rLast'.faults = {}) =>
        LET due == ResolvedInPass(store, rLast'.executed, rLast'.writes,
                                 rLast'.shown, ghAudit', cursor)
        IN  /\ \A id \in due :
                  \E r \in store' :
                      /\ r.SK = InvSK(id) /\ r.Status = InvitationResolved
                      /\ r.GitHubLogin \in SignalledHandles(id, rLast'.shown, ghAudit', cursor)
            /\ \A id \in (0..MaxID) \ due :
                  [op |-> "ResolveInvitation", sk |-> InvSK(id)] \notin rLast'.writes
            /\ rLast'.result.Resolved = Cardinality(due)

\* C31: in a pass in which no call fails, a record that is pending when the
\* resolution phases begin becomes resolved, with a handle the pass was shown,
\* exactly when the live pending list or a fetched audit event shows a handle
\* for its invitation id; other signals cause no write, and the resolved
\* counter is the number of records resolved, each counted once
C31_ResolvedExactlyWhenSignalled == [][C31_Pass]_vars

\* a pass resolved an invitation that both the pending list and the audit
\* log showed with a handle
C31_Witness ==
    /\ rLast.pass = "reconcile" /\ rLast.faults = {} /\ rLast.result.Resolved = 1
    /\ \E id \in ShownIDs(rLast.shown) :
          /\ id \in rLast.audited
          /\ [op |-> "ResolveInvitation", sk |-> InvSK(id)] \in rLast.writes
          /\ \E r \in store : r.SK = InvSK(id) /\ r.Status = InvitationResolved


\* the executed invite actions that carry an invitation id
InvitesToSave(executed) ==
    {k \in DOMAIN executed : /\ executed[k].Type = ActionInvite /\ executed[k].Executed
                             /\ executed[k].InvitationID # NoID}

\* the keys of the records a pass wrote as new
SavedKeys(writes) == {w.sk : w \in {v \in writes : v.op = "SaveInvitation" /\ v.sk.kind = "INV"}}

C32_Pass ==
    (rPc = "idle" /\ rPc' = "ensure") =>
        LET executed == rLast'.executed
            invites  == InvitesToSave(executed)
        IN  /\ SavedKeys(rLast'.writes) \subseteq {InvSK(executed[k].InvitationID) : k \in invites}
            /\ rLast'.result.NewInvitationsSaved = Cardinality(SavedKeys(rLast'.writes))
            /\ "SaveInvitation" \notin rLast'.faults =>
                  \A k \in invites :
                      /\ InvSK(executed[k].InvitationID) \in SavedKeys(rLast'.writes)
                      /\ \E r \in store' :
                            /\ r.SK = InvSK(executed[k].InvitationID)
                            /\ r.Status = InvitationPending
                            /\ r.Email = executed[k].Email
                            /\ r.Role = executed[k].TargetRole
            /\ \A r \in store' :
                  (r.Status = InvitationPending /\ r \notin store) =>
                      \E k \in invites : r.SK = InvSK(executed[k].InvitationID)

\* C32: a pass writes a pending record INV#<id> with the invited email and the
\* desired role for every executed invite that carries an invitation id, no
\* pending record for anything else, and counts the writes that succeeded
C32_PendingRecordPerExecutedInvite == [][C32_Pass]_vars

\* a pass saved the record of the invitation it had just created
C32_Witness ==
    /\ rLast.pass = "reconcile" /\ rLast.result.NewInvitationsSaved = 1
    /\ \E k \in InvitesToSave(rLast.executed) :
          \E r \in store : /\ r.SK = InvSK(rLast.executed[k].InvitationID)
                           /\ r.Status = InvitationPending
                           /\ r.Email = rLast.executed[k].Email


\* the order of the steps of a run
StepOrder ==
    <<"GetMembersGroup", "GetOwnersGroup", "applySuspensionStatus", "ListMembers",
      "ListPendingInvitations", "buildEmailMappings", "ListMembersWithVerifiedEmails",
      "ExecuteActions", "Reconcile", "EnsureVerifiedEmailMappings">>

StepIndex(phase) == CHOOSE i \in DOMAIN StepOrder : StepOrder[i] = phase

\* the phases that write to the store
StoreWritingPhases == {"Reconcile", "EnsureVerifiedEmailMappings"}

InStepOrder(log) ==
    /\ \A i, j \in DOMAIN log :
          i < j => StepIndex(log[i].phase) < StepIndex(log[j].phase)
    /\ \A k \in DOMAIN log :
          /\ log[k].calls # <<>> =>
                /\ log[k].phase = "ExecuteActions"
                /\ \A l \in MandatoryListings :
                      \E i \in 1..(k - 1) : log[i].phase = l /\ log[i].ok
          /\ log[k].phase \in StoreWritingPhases =>
                \E i \in 1..(k - 1) : log[i].phase = "ExecuteActions"

Admitted(p) == ePc[p] \in {"run", "defer", "reset"}

C35_Step ==
    /\ eRunning' => \E p \in Procs : Admitted(p)'
    /\ \A p \in Procs :
          (ePc[p] = "check" /\ ePc'[p] # "check") =>
              IF \E q \in Procs \ {p} : Admitted(q) \/ ePc[q] = "set"
              THEN ePc'[p] = "idle" /\ eRunning /\ eRunning'
              ELSE ePc'[p] = "set"

\* C35: the running flag is never left set by a run that has returned,
\* whether with a result or with an error, so a Sync called when no run is in
\* progress is admitted; a rejected Sync leaves the flag set
C35_FlagClearedOnEveryExit == [][C35_Step]_vars

\* a run is admitted after the other caller's run returned an error
C35_Witness ==
    \E p, q \in Procs :
        /\ p # q /\ ePc[p] = "idle" /\ eRet[p] = "error" /\ ~eRunning
        /\ ePc[q] = "set" /\ eCount[q] = 1


\* the audit events of the pass whose pending record was met but could not be
\* resolved because the store failed
UnresolvedEvents(log, auditCursor, before, writes, faults) ==
    {k \in NewAuditEntries(log, auditCursor) :
        /\ faults \cap {"GetInvitation", "ResolveInvitation"} # {}
        /\ \/ StoredPending(before, log[k].InvitationID)
           \/ [op |-> "SaveInvitation", sk |-> InvSK(log[k].InvitationID)] \in writes}

C39_Pass ==
    (rPc = "idle" /\ rPc' = "ensure") =>
        \A k \in UnresolvedEvents(ghAudit', cursor, store, rLast'.writes, rLast'.faults) :
            cursor' < ghAudit'[k].Timestamp

\* C39: a pass never saves a cursor at or beyond the timestamp of an audit
\* event whose pending record it could not read or resolve because of a store
\* error, so that a later pass fetches the event again
C39_CursorStopsAtFailedEvent == [][C39_Pass]_vars

=============================================================================
